---- MODULE Spec2Model ----
(***************************************************************************)
(* A model of the in-memory cache of projects_api:                         *)
(*   app/services/cache_service.py     lifecycle, collections, indices     *)
(*   app/services/formatter_service.py record formatters                   *)
(*   app/services/airtable_service.py  the remote source (environment)     *)
(* Threads are modelled at the granularity of the statements that read or  *)
(* write the module-level globals of cache_service.py.                     *)
(***************************************************************************)
EXTENDS Integers, Sequences, FiniteSets, TLC

(***************************************************************************)
(* Bounds of the model.                                                    *)
(***************************************************************************)
\* request threads that call ensure_cache_initialized(), again and again
NumCallers == 2
\* calls of update_cache() made by the administrative thread
MaxRefresh == 1

Callers == 1..NumCallers
\* the request threads of the specifications that follow every route, or an
\* update_cache() as well
NumRequesters == 1
Requesters == 1..NumRequesters
\* the thread that runs update_cache(); background run c is the one spawned
\* by caller c
Admin == 0
RunIds == {Admin} \cup Callers

(***************************************************************************)
(* Python values.  A string is a sequence of one-character strings, so     *)
(* that lower() and split(",") are computed and not assumed.               *)
(***************************************************************************)
None == [none |-> TRUE]
Str(s) == [str |-> s]
Num(n) == [num |-> n]
List(l) == [list |-> l]

IsStr(v) == DOMAIN v = {"str"}
IsNum(v) == DOMAIN v = {"num"}
IsList(v) == DOMAIN v = {"list"}

\* bool(v)
Truthy(v) ==
    IF v = None THEN FALSE
    ELSE IF IsStr(v) THEN v.str # <<>>
    ELSE IF IsNum(v) THEN v.num # 0
    ELSE v.list # <<>>

LowerChar(c) ==
    CASE c = "K" -> "k"
      [] c = "A" -> "a"
      [] c = "B" -> "b"
      [] c = "H" -> "h"
      [] c = "L" -> "l"
      [] c = "S" -> "s"
      [] OTHER -> c

\* str.lower() on the characters of a string
Lower(s) == [i \in DOMAIN s |-> LowerChar(s[i])]

\* str.split(",") on the characters of a string: "" gives [""]
RECURSIVE Split(_)
Split(s) ==
    IF s = <<>> THEN << <<>> >>
    ELSE LET rest == Split(Tail(s))
         IN  IF Head(s) = ","
             THEN << <<>> >> \o rest
             ELSE << <<Head(s)>> \o Head(rest) >> \o Tail(rest)

\* dict.get(key, default)
Get(d, key, default) == IF key \in DOMAIN d THEN d[key] ELSE default

EmptyStr == Str(<<>>)

(***************************************************************************)
(* formatter_service.py.  A raw record is a mapping with the keys "id" and *)
(* "fields"; a formatter returns None when anything in it raises.  The     *)
(* entities carry the fields the cache and the query engine read; the      *)
(* remaining descriptive fields are copied the same way, by                *)
(* fields.get(<column>, "").                                               *)
(***************************************************************************)
format_residential_project(record) ==
    IF ~({"fields", "id"} \subseteq DOMAIN record) THEN None
    ELSE LET fields == record["fields"]
             photos == Get(fields, "Photos", None)
         IN  \* fields.get("Photos").split(",") raises on a truthy non-string
             IF Truthy(photos) /\ ~IsStr(photos) THEN None
             ELSE [rera |-> Get(fields, "RERA Number", EmptyStr),
                   name |-> Get(fields, "Project Name", EmptyStr),
                   coverPhotoLink |->
                       IF Truthy(photos) THEN Str(Split(photos.str)[1])
                       ELSE IF Truthy(Get(fields, "Cover Photo Storage URL", None))
                            THEN fields["Cover Photo Storage URL"]
                            ELSE EmptyStr,
                   coordinates |-> Get(fields, "coordinates", EmptyStr),
                   photos |-> Get(fields, "Photos", EmptyStr),
                   airtable_id |-> record["id"]]

format_commercial_project(record) ==
    IF ~("fields" \in DOMAIN record) THEN None
    ELSE LET fields == record["fields"]
         IN  [rera |-> Get(fields, "RERA Number", EmptyStr),
              name |-> Get(fields, "Project Name", EmptyStr),
              coverPhotoLink |->
                  IF Truthy(Get(fields, "Cover Photo Storage URL", None))
                  THEN fields["Cover Photo Storage URL"]
                  ELSE EmptyStr,
              Coordinates |-> Get(fields, "Coordinates", EmptyStr)]

format_locality(record) ==
    IF ~("fields" \in DOMAIN record) THEN None
    ELSE [name |-> Get(record["fields"], "Name", EmptyStr)]

\* rera_number[0]: the first element of a list, the first character of a
\* string; a number is not subscriptable
CanSubscript(v) == (IsList(v) /\ v.list # <<>>) \/ (IsStr(v) /\ v.str # <<>>)
First(v) == IF IsList(v) THEN v.list[1] ELSE Str(<<v.str[1]>>)

\* The outcome of get_linked_project_photos: [raised |-> TRUE] when the scan
\* raises (a None project has no get, photos that are no string have no
\* split), else [raised |-> FALSE, value |-> None or the list of photos].
RECURSIVE get_linked_project_photos(_, _)
get_linked_project_photos(rera_number, residential_projects_cache) ==
    IF residential_projects_cache = <<>>
    THEN [raised |-> FALSE, value |-> None]
    ELSE LET project == Head(residential_projects_cache)
         IN  IF project = None \/ ~CanSubscript(rera_number)
             THEN [raised |-> TRUE]
             ELSE IF project.rera = First(rera_number)
                  THEN IF IsStr(project.photos)
                       THEN [raised |-> FALSE,
                             value |-> List(Split(project.photos.str))]
                       ELSE [raised |-> TRUE]
                  ELSE get_linked_project_photos(
                           rera_number, Tail(residential_projects_cache))

format_residential_property(record, residential_projects_cache) ==
    IF ~({"fields", "id"} \subseteq DOMAIN record) THEN None
    ELSE LET fields == record["fields"]
             own == Get(fields, "Photos", EmptyStr)
             linked_project_rera ==
                 Get(fields, "RERA Number (from residential projects)", EmptyStr)
             lookup == ~Truthy(own) /\ Truthy(linked_project_rera)
                       /\ residential_projects_cache # <<>>
             project_photos ==
                 get_linked_project_photos(linked_project_rera,
                                           residential_projects_cache)
         IN  IF lookup /\ project_photos.raised THEN None
             ELSE [name |-> Get(fields, "Property Name", EmptyStr),
                   price |-> Get(fields, "Price", EmptyStr),
                   transactionType |-> Get(fields, "Transaction Type", EmptyStr),
                   locality |-> Get(fields, "Name (from Localities)", EmptyStr),
                   photos |->
                       IF lookup /\ Truthy(project_photos.value)
                       THEN Str(project_photos.value.list[1])
                       ELSE own,
                   propertyType |-> Get(fields, "Property Type", EmptyStr),
                   coordinates |-> Get(fields, "Property Coordinates", EmptyStr),
                   bhk |-> Get(fields, "BHK", EmptyStr),
                   airtable_id |-> record["id"],
                   linked_project_rera |-> linked_project_rera]

format_commercial_property(record, commercial_projects_cache) ==
    IF ~({"fields", "id"} \subseteq DOMAIN record) THEN None
    ELSE LET fields == record["fields"]
             raw == Get(fields, "Photos", EmptyStr)
         IN  [name |-> Get(fields, "Property Name", EmptyStr),
              price |-> Get(fields, "Price", EmptyStr),
              transactionType |-> Get(fields, "Transaction Type", EmptyStr),
              locality |-> Get(fields, "Name (from Localities)", EmptyStr),
              propertyType |-> Get(fields, "Property Type", EmptyStr),
              \* the inner try: photos.split(",")[0], '' when it raises
              photos |-> IF Truthy(raw) /\ IsStr(raw)
                         THEN Str(Split(raw.str)[1])
                         ELSE EmptyStr,
              coordinates |-> Get(fields, "Property Coordinates", EmptyStr),
              airtable_id |-> record["id"]]

(***************************************************************************)
(* The remote source (airtable_service.py): what a fetch may return.  Each *)
(* fetch returns one of the lists below, or raises.                        *)
(***************************************************************************)
Rec(id, fields) == [k \in {"id", "fields"} |-> IF k = "id" THEN Str(id) ELSE fields]
\* a record without its "fields" key: every formatter returns None for it
Malformed(id) == [k \in {"id"} |-> Str(id)]

Project(name, rera, photos) ==
    [k \in {"Project Name", "RERA Number", "Photos"} |->
        CASE k = "Project Name" -> name
          [] k = "RERA Number" -> Str(rera)
          [] OTHER -> Str(photos)]

ResidentialProjectFeeds ==
    { \* two names with one lowercase key
      << Rec("rp1", Project(Str(<<"K", "a">>), <<"1">>, <<"u", ",", "v">>)),
         Rec("rp2", Project(Str(<<"k", "a">>), <<"2">>, <<>>)) >>,
      \* a record that formats to None, and a name that is a number:
      \* name.lower() raises in the index builder
      << Malformed("rp0"),
         Rec("rp3", Project(Str(<<"A", "b">>), <<"1">>, <<"w">>)),
         Rec("rp4", Project(Num(7), <<"3">>, <<>>)) >> }

CommercialProjectFeeds ==
    { \* a record that formats to None, a named one and one without a name
      << Malformed("cp1"),
         Rec("cp2", Project(Str(<<"K", "b">>), <<"4">>, <<>>)),
         Rec("cp3", [k \in {"RERA Number"} |-> Str(<<"5">>)]) >> }

ResidentialPropertyFeeds ==
    { << Rec("pp1", [k \in {"Property Name",
                            "RERA Number (from residential projects)"} |->
                        IF k = "Property Name" THEN Str(<<"A">>)
                        ELSE List(<<Str(<<"1">>)>>)]),
         Rec("pp2", [k \in {"Photos"} |-> Str(<<"x">>)]) >> }

CommercialPropertyFeeds ==
    { << Rec("cq1", [k \in {"Photos"} |-> Str(<<"y", ",", "z">>)]) >> }

LocalityFeeds ==
    { << Rec("lo1", [k \in {"Name"} |-> Str(<<"B">>)]) >> }

\* [f(x) for x in xs]
Map(F(_), xs) == [i \in DOMAIN xs |-> F(xs[i])]
Map2(F(_, _), xs, y) == [i \in DOMAIN xs |-> F(xs[i], y)]

(***************************************************************************)
(* Numbers read from text.  The characters of the model's strings are the  *)
(* decimal digits, "-", "+", ".", ",", " ", the currency glyph and the     *)
(* letters of Alphabet; on these, int() and float() accept an optional     *)
(* sign and decimal digits (float() also one ".", and the word "nan" in    *)
(* any case), surrounded by blanks, and raise ValueError on anything else. *)
(* A float is kept exactly, as the fraction n / d with d a power of ten,   *)
(* or is the not-a-number NaN.                                             *)
(***************************************************************************)
\* the outcome of a call: what it returned, or the exception it raised
Returned(v) == [returned |-> v]
Raised(exception) == [raised |-> exception]
IsRaised(outcome) == "raised" \in DOMAIN outcome

DigitValue(c) ==
    CASE c = "0" -> 0 [] c = "1" -> 1 [] c = "2" -> 2 [] c = "3" -> 3
      [] c = "4" -> 4 [] c = "5" -> 5 [] c = "6" -> 6 [] c = "7" -> 7
      [] c = "8" -> 8 [] c = "9" -> 9

IsDigits(s) ==
    \A i \in DOMAIN s :
        s[i] \in {"0", "1", "2", "3", "4", "5", "6", "7", "8", "9"}

\* str.strip(): the blanks at both ends removed
Strip(s) ==
    LET inked == {i \in DOMAIN s : s[i] # " "}
    IN  IF inked = {} THEN <<>>
        ELSE SubSeq(s, CHOOSE i \in inked : \A j \in inked : i <= j,
                       CHOOSE i \in inked : \A j \in inked : i >= j)

\* the value of a sequence of decimal digits
RECURSIVE Natural(_)
Natural(s) ==
    IF s = <<>> THEN 0
    ELSE 10 * Natural(SubSeq(s, 1, Len(s) - 1)) + DigitValue(s[Len(s)])

RECURSIVE Power10(_)
Power10(k) == IF k = 0 THEN 1 ELSE 10 * Power10(k - 1)

\* the sign of a stripped numeral and the numeral without it
SignOf(t) == IF t # <<>> /\ t[1] = "-" THEN -1 ELSE 1
Unsigned(t) == IF t # <<>> /\ t[1] \in {"-", "+"} THEN Tail(t) ELSE t

\* int(s) on the characters of a string
ParseInt(s) ==
    LET body == Unsigned(Strip(s))
    IN  IF body # <<>> /\ IsDigits(body)
        THEN Returned(SignOf(Strip(s)) * Natural(body))
        ELSE Raised("ValueError")

\* float("nan"): unordered with every float, itself included
NaN == [nan |-> TRUE]
IsNaN(a) == a = NaN

\* float(s) on the characters of a string
ParseFloat(s) ==
    LET body == Unsigned(Strip(s))
        dots == {i \in DOMAIN body : body[i] = "."}
        whole == IF dots = {} THEN body
                 ELSE SubSeq(body, 1, (CHOOSE i \in dots : TRUE) - 1)
        fraction == IF dots = {} THEN <<>>
                    ELSE SubSeq(body, (CHOOSE i \in dots : TRUE) + 1, Len(body))
    IN  IF Lower(body) = <<"n", "a", "n">> THEN Returned(NaN)
        ELSE IF /\ Cardinality(dots) <= 1
           /\ IsDigits(whole) /\ IsDigits(fraction)
           /\ Len(whole) + Len(fraction) >= 1
        THEN Returned([n |-> SignOf(Strip(s)) * Natural(whole \o fraction),
                       d |-> Power10(Len(fraction))])
        ELSE Raised("ValueError")

\* a <= b and a < b on floats (False when either is NaN), and the float of
\* an integer
Leq(a, b) == ~IsNaN(a) /\ ~IsNaN(b) /\ a.n * b.d <= b.n * a.d
Lt(a, b) == ~IsNaN(a) /\ ~IsNaN(b) /\ a.n * b.d < b.n * a.d
Float(i) == [n |-> i, d |-> 1]

(***************************************************************************)
(* app/models/schemas.py                                                   *)
(***************************************************************************)
ViewportParams_MutantNoOrderCheck(min_lat, max_lat, min_lng, max_lng) ==
    IF ~(/\ Leq(Float(-90), min_lat) /\ Leq(min_lat, Float(90))
         /\ Leq(Float(-90), max_lat) /\ Leq(max_lat, Float(90)))
    THEN Raised("ValueError")
    ELSE IF ~(/\ Leq(Float(-180), min_lng) /\ Leq(min_lng, Float(180))
              /\ Leq(Float(-180), max_lng) /\ Leq(max_lng, Float(180)))
    THEN Raised("ValueError")
    ELSE Returned([min_lat |-> min_lat, max_lat |-> max_lat,
                   min_lng |-> min_lng, max_lng |-> max_lng])

\* ViewportParams.__init__ on four floats: the viewport, or ValueError
ViewportParams(min_lat, max_lat, min_lng, max_lng) ==
    IF Lt(max_lat, min_lat) \/ Lt(max_lng, min_lng)
    THEN Raised("ValueError")
    ELSE IF ~(/\ Leq(Float(-90), min_lat) /\ Leq(min_lat, Float(90))
              /\ Leq(Float(-90), max_lat) /\ Leq(max_lat, Float(90)))
    THEN Raised("ValueError")
    ELSE IF ~(/\ Leq(Float(-180), min_lng) /\ Leq(min_lng, Float(180))
              /\ Leq(Float(-180), max_lng) /\ Leq(max_lng, Float(180)))
    THEN Raised("ValueError")
    ELSE Returned([min_lat |-> min_lat, max_lat |-> max_lat,
                   min_lng |-> min_lng, max_lng |-> max_lng])

\* ProjectCoordinates.__init__ on a Python value: the point, or ValueError
\* (every exception of the parse is raised again as a ValueError)
ProjectCoordinates(coord_str) ==
    IF ~Truthy(coord_str) \/ ~IsStr(coord_str) THEN Raised("ValueError")
    ELSE LET parts == Split(coord_str.str)
         IN  IF Len(parts) # 2 THEN Raised("ValueError")
             ELSE LET lat == ParseFloat(parts[1])
                      lng == ParseFloat(parts[2])
                  IN  IF IsRaised(lat) \/ IsRaised(lng)
                      THEN Raised("ValueError")
                      ELSE IF ~(/\ Leq(Float(-90), lat.returned)
                                /\ Leq(lat.returned, Float(90)))
                      THEN Raised("ValueError")
                      ELSE IF ~(/\ Leq(Float(-180), lng.returned)
                                /\ Leq(lng.returned, Float(180)))
                      THEN Raised("ValueError")
                      ELSE Returned([lat |-> lat.returned,
                                     lng |-> lng.returned])

(***************************************************************************)
(* app/utils/location_utils.py                                             *)
(***************************************************************************)
is_point_in_viewport(coords, viewport) ==
    /\ Leq(viewport.min_lat, coords.lat) /\ Leq(coords.lat, viewport.max_lat)
    /\ Leq(viewport.min_lng, coords.lng) /\ Leq(coords.lng, viewport.max_lng)

\* a or b
Or(a, b) == IF Truthy(a) THEN a ELSE b

\* one iteration on a project that is a mapping: whether it is appended
\* (a ValueError of ProjectCoordinates skips the project)
Appended(project, viewport) ==
    LET coord_str == Or(Get(project, "coordinates", EmptyStr),
                        Get(project, "Coordinates", EmptyStr))
        coords == ProjectCoordinates(coord_str)
    IN  /\ Truthy(coord_str)
        /\ ~IsRaised(coords)
        /\ is_point_in_viewport(coords.returned, viewport)

\* The loop visits every project.  project.get on None raises
\* AttributeError, which "except ValueError" does not catch: the call ends
\* there.  Otherwise the appended projects are returned in their order.
filter_projects_by_viewport(projects, viewport) ==
    IF \E i \in DOMAIN projects : projects[i] = None
    THEN Raised("AttributeError")
    ELSE Returned(SelectSeq(projects, LAMBDA project : Appended(project, viewport)))

(***************************************************************************)
(* app/utils/pagination_utils.py.  viewport_params holds the four bounds   *)
(* as the text of the query string, pagination_params three integers.      *)
(***************************************************************************)
Max(a, b) == IF a >= b THEN a ELSE b
Min(a, b) == IF a <= b THEN a ELSE b

Slice_MutantInclusiveEnd(xs, start, end) ==
    SubSeq(xs, start + 1, Min(end + 1, Len(xs)))

\* xs[start:end] for 0 <= start
Slice(xs, start, end) == SubSeq(xs, start + 1, Min(end, Len(xs)))

\* lines 21-30 and 79-88: the viewport of the request, or ValueError
viewport_from(min_lat, max_lat, min_lng, max_lng) ==
    IF IsRaised(min_lat) \/ IsRaised(max_lat)
       \/ IsRaised(min_lng) \/ IsRaised(max_lng)
    THEN Raised("ValueError")
    ELSE ViewportParams(min_lat.returned, max_lat.returned,
                        min_lng.returned, max_lng.returned)

viewport_of(viewport_params) ==
    viewport_from(ParseFloat(viewport_params.minLat),
                  ParseFloat(viewport_params.maxLat),
                  ParseFloat(viewport_params.minLng),
                  ParseFloat(viewport_params.maxLng))

\* line 35: limit = min(500, max(1, int(limit)))
viewport_limit(limit) == Min(500, Max(1, limit))

viewport_has_more_MutantInclusive(end, total) == end <= total

\* line 67: "has_more": end < len(in_viewport_projects)
viewport_has_more(end, total) == end < total

\* lines 33-70 and 91-128: the page of the filtered list and its metadata
viewport_page(filtered, viewport, pagination_params) ==
    LET page == Max(1, pagination_params.page)
        limit == viewport_limit(pagination_params.limit)
        offset == Max(0, pagination_params.offset)
        start == ((page - 1) * limit) + offset
        end == start + limit
        overflow == start >= Len(filtered)
    IN  [status |-> "success",
         total |-> Len(filtered),
         page |-> page, limit |-> limit, offset |-> offset,
         viewport |-> viewport,
         items |-> IF overflow THEN <<>> ELSE Slice(filtered, start, end),
         has_more |-> IF overflow THEN FALSE
                      ELSE viewport_has_more(end, Len(filtered)),
         message |-> IF overflow
                     THEN "Page number exceeds available data for this viewport"
                     ELSE ""]

\* The outcome of the call: the response mapping (its "projects" entry is
\* the field items, and the absent "message" is ""), or the exception.
paginate_in_viewport(in_viewport_projects, viewport, pagination_params) ==
    IF IsRaised(in_viewport_projects) THEN in_viewport_projects
    ELSE Returned(viewport_page(in_viewport_projects.returned, viewport,
                                pagination_params))

filter_and_paginate(projects_cache, viewport, pagination_params) ==
    IF IsRaised(viewport) THEN Raised("ValueError")
    ELSE paginate_in_viewport(
             filter_projects_by_viewport(projects_cache, viewport.returned),
             viewport.returned, pagination_params)

get_projects_in_viewport(projects_cache, viewport_params, pagination_params) ==
    filter_and_paginate(projects_cache, viewport_of(viewport_params),
                        pagination_params)

\* the same code, with the entry "properties" in place of "projects"
get_properties_in_viewport(properties_cache, viewport_params, pagination_params) ==
    get_projects_in_viewport(properties_cache, viewport_params,
                             pagination_params)

(***************************************************************************)
(* The route handlers of app/routes, after their readiness guard.  args is *)
(* the query string: a mapping from parameter names to text.  A response   *)
(* is the HTTP status and the body.                                        *)
(***************************************************************************)
Response(status, body) == [status |-> status, body |-> body]
Error(status, message) ==
    Response(status, [status |-> "error", message |-> message])

\* int(request.args.get(name, default))
IntArg(args, name, default) ==
    IF name \in DOMAIN args THEN ParseInt(args[name]) ELSE Returned(default)

\* all(request.args.get(param) for param in [...])
has_viewport(args) ==
    \A param \in {"minLat", "maxLat", "minLng", "maxLng"} :
        param \in DOMAIN args /\ args[param] # <<>>

\* lines 67-89 of projects.py: "Regular pagination without viewport"
regular_page(projects, limit, offset) ==
    LET start == offset
        end == offset + limit
        overflow == offset >= Len(projects)
    IN  [status |-> "success",
         items |-> IF overflow THEN <<>> ELSE Slice(projects, start, end),
         total |-> Len(projects),
         limit |-> limit, offset |-> offset,
         has_more |-> IF overflow THEN FALSE ELSE end < Len(projects),
         message |-> IF overflow THEN "Offset exceeds available data" ELSE ""]

\* get_commercial_projects / get_residential_projects of projects.py on the
\* collection their accessor returns
\* lines 58-65 and 97-102: the answer for the outcome of the viewport call
viewport_answer(result) ==
    IF ~IsRaised(result) THEN Response(200, result.returned)
    ELSE IF result.raised = "ValueError"
    THEN Error(400, "Invalid viewport parameters")
    ELSE Error(500, "Internal server error")

\* the handler on the outcomes of int(limit) and int(offset)
projects_answer(args, projects, limit, offset) ==
    IF IsRaised(limit) \/ IsRaised(offset)
    THEN Error(400, "invalid literal for int()")
    ELSE IF has_viewport(args)
    THEN viewport_answer(
             get_projects_in_viewport(
                 projects,
                 [minLat |-> args["minLat"], maxLat |-> args["maxLat"],
                  minLng |-> args["minLng"], maxLng |-> args["maxLng"]],
                 [page |-> 1,
                  limit |-> Max(1, limit.returned),
                  offset |-> Max(0, offset.returned)]))
    ELSE Response(200, regular_page(projects, Max(1, limit.returned),
                                    Max(0, offset.returned)))

projects_route(args, projects) ==
    projects_answer(args, projects,
                    IntArg(args, "limit", 12), IntArg(args, "offset", 0))

\* The scan of the point lookups, properties.py lines 32-38 and 64-70:
\* property["airtable_id"] raises on None (TypeError) and on a mapping
\* without the key (KeyError), and the route answers 500.
RECURSIVE property_by_id(_, _)
property_by_id(properties_cache, property_id) ==
    IF properties_cache = <<>> THEN Error(404, "Property not found")
    ELSE LET property == Head(properties_cache)
         IN  IF property = None \/ "airtable_id" \notin DOMAIN property
             THEN Error(500, "Internal server error")
             ELSE IF property.airtable_id = property_id
             THEN Response(200, property)
             ELSE property_by_id(Tail(properties_cache), property_id)

\* request.args.get("propertyId"): None when the parameter is missing
property_by_id_route(args, properties_cache) ==
    property_by_id(properties_cache,
                   IF "propertyId" \in DOMAIN args
                   THEN Str(args["propertyId"]) ELSE None)

(***************************************************************************)
(* app/routes/search.py, lines 25-68 and 94-137.                           *)
(***************************************************************************)
\* the characters of the model's strings, in code point order
Alphabet ==
    << " ", "+", ",", "-", ".",
       "0", "1", "2", "3", "4", "5", "6", "7", "8", "9",
       "A", "B", "H", "K", "L", "S",
       "a", "b", "d", "h", "k", "l", "n", "o", "p", "s",
       "u", "v", "w", "x", "y", "z", "₹" >>

Ord(c) == CHOOSE i \in DOMAIN Alphabet : Alphabet[i] = c

\* s < t on strings
RECURSIVE StrLess(_, _)
StrLess(s, t) ==
    IF t = <<>> THEN FALSE
    ELSE IF s = <<>> THEN TRUE
    ELSE IF Head(s) = Head(t) THEN StrLess(Tail(s), Tail(t))
    ELSE Ord(Head(s)) < Ord(Head(t))

\* name_key.startswith(search_term)
StartsWith(name_key, search_term) ==
    /\ Len(search_term) <= Len(name_key)
    /\ SubSeq(name_key, 1, Len(search_term)) = search_term

(***************************************************************************)
(* The dict and the set of Python the search handlers work with.  A dict   *)
(* gives its keys in insertion order.  A set of small non-negative ints    *)
(* gives them in the order of its hash table (CPython, setobject.c): an    *)
(* int n is hashed to n, the table has 8 slots at first, a key goes to     *)
(* the first free slot of its probe sequence, and the table is rebuilt     *)
(* with more slots when three fifths of them are used.                     *)
(***************************************************************************)
\* a dict: its keys in insertion order and the value under each key
PyDict(keys, items) == [keys |-> keys, items |-> items]

PySet_MINSIZE == 8
LINEAR_PROBES == 9
PERTURB_SHIFT == 5

\* a slot of the table that holds no key
Unused == -1

\* set()
set_new == [table |-> [i \in 1..PySet_MINSIZE |-> Unused], fill |-> 0]

\* The slot (from 0) of the table where key is, or where it goes: slot i
\* and, when they fit in the table, the LINEAR_PROBES slots after it are
\* looked at, then the sequence goes on from i * 5 + 1 + perturb.
RECURSIVE set_lookkey(_, _, _, _)
set_lookkey(table, key, i, perturb) ==
    LET mask == Len(table) - 1
        probes == IF i + LINEAR_PROBES <= mask THEN LINEAR_PROBES ELSE 0
        hits == {j \in i..(i + probes) : table[j + 1] \in {Unused, key}}
        shifted == perturb \div (2 ^ PERTURB_SHIFT)
    IN  IF hits # {} THEN CHOOSE j \in hits : \A k \in hits : j <= k
        ELSE set_lookkey(table, key, (i * 5 + 1 + shifted) % (mask + 1), shifted)

\* the table with key put into it
set_insert_clean(table, key) ==
    [table EXCEPT ![set_lookkey(table, key, key % Len(table), key) + 1] = key]

RECURSIVE set_insert_all(_, _)
set_insert_all(table, keys) ==
    IF keys = <<>> THEN table
    ELSE set_insert_all(set_insert_clean(table, Head(keys)), Tail(keys))

\* iteration of a set: the keys in the order of the slots
set_iter(so) ==
    LET used == {j \in DOMAIN so.table : so.table[j] # Unused}
    IN  [n \in 1..Cardinality(used) |->
            so.table[CHOOSE j \in used :
                         Cardinality({k \in used : k < j}) = n - 1]]

\* the number of slots of a table rebuilt for minused keys
RECURSIVE set_table_size(_, _)
set_table_size(newsize, minused) ==
    IF newsize <= minused THEN set_table_size(2 * newsize, minused) ELSE newsize

\* the set with a new table, its keys put into it in the order of the old
\* slots
set_table_resize(so, minused) ==
    [table |-> set_insert_all(
                   [i \in 1..set_table_size(PySet_MINSIZE, minused) |-> Unused],
                   set_iter(so)),
     fill |-> so.fill]

\* set.add(key)
set_add(so, key) ==
    LET slot == set_lookkey(so.table, key, key % Len(so.table), key)
        added == [table |-> [so.table EXCEPT ![slot + 1] = key],
                  fill |-> so.fill + 1]
    IN  IF so.table[slot + 1] = key THEN so
        ELSE IF added.fill * 5 < (Len(so.table) - 1) * 3 THEN added
        ELSE set_table_resize(added, added.fill * 4)

\* set.update(keys) on a list: its elements are added in the order of the
\* list
RECURSIVE set_update(_, _)
set_update(so, keys) ==
    IF keys = <<>> THEN so
    ELSE set_update(set_add(so, Head(keys)), Tail(keys))

\* lines 37-39 from the key at position pos of the dict on, with the set
\* built so far
RECURSIVE matching_from(_, _, _, _)
matching_from(search_term, NAME_INDEX, pos, so) ==
    IF pos > Len(NAME_INDEX.keys) THEN so
    ELSE LET name_key == NAME_INDEX.keys[pos]
         IN  matching_from(
                 search_term, NAME_INDEX, pos + 1,
                 IF StartsWith(name_key, search_term)
                 THEN set_update(so, NAME_INDEX.items[name_key])
                 ELSE so)

\* lines 36-39: the set of the positions listed under the keys of the dict
\* that start with the term
matching_indices(search_term, NAME_INDEX) ==
    matching_from(search_term, NAME_INDEX, 1, set_new)

\* list.sort(key=lambda x: x['name'].lower()): stable, entities of equal
\* key stay in the order of the list
RECURSIVE sorted_by_name(_)
sorted_by_name(items) ==
    IF items = <<>> THEN <<>>
    ELSE LET key(i) == Lower(items[i].name.str)
             first == CHOOSE i \in DOMAIN items :
                         \A j \in DOMAIN items \ {i} :
                             \/ StrLess(key(i), key(j))
                             \/ (key(i) = key(j) /\ i < j)
         IN  <<items[first]>> \o
             sorted_by_name(SubSeq(items, 1, first - 1)
                            \o SubSeq(items, first + 1, Len(items)))

sort_by_name_MutantInsertionOrder(positions, CACHE) ==
    [j \in DOMAIN positions |-> CACHE[positions[j] + 1]]

\* lines 42-43 on the positions in the iteration order of the set: the
\* list of the entities at them, then sorted
sort_by_name(positions, CACHE) ==
    sorted_by_name([j \in DOMAIN positions |-> CACHE[positions[j] + 1]])

\* line 26: limit = min(100, max(1, int(limit)))
search_limit(limit) == Min(100, Max(1, limit))

\* whether lines 42-43 raise: a position outside the collection
\* (IndexError), or an entity that is None or has a name that is no string
search_raises(positions, CACHE) ==
    \E j \in DOMAIN positions :
        \/ positions[j] + 1 \notin DOMAIN CACHE
        \/ CACHE[positions[j] + 1] = None
        \/ ~IsStr(CACHE[positions[j] + 1].name)

search_term_of_MutantNoStrip(args) == Lower(Get(args, "q", <<>>))

\* line 25: request.args.get("q", "").lower().strip()
search_term_of(args) == Strip(Lower(Get(args, "q", <<>>)))

\* search_commercial_projects / search_residential_projects on the index
\* and the collection the module's names are bound to
\* lines 42-68: the page of the sorted matches, or the 500 of line 79
search_page(positions, CACHE, limit, offset) ==
    IF search_raises(positions, CACHE)
    THEN Error(500, "Internal server error")
    ELSE Response(200, regular_page(sort_by_name(positions, CACHE),
                                    search_limit(limit), Max(0, offset)))

\* the handler on the term and the outcomes of int(limit) and int(offset)
search_answer(search_term, limit, offset, NAME_INDEX, CACHE) ==
    IF IsRaised(limit) \/ IsRaised(offset)
    THEN Error(400, "Invalid parameters for limit or offset")
    ELSE IF search_term = <<>>
    THEN Error(400, "Search term is required")
    ELSE search_page(set_iter(matching_indices(search_term, NAME_INDEX)), CACHE,
                     limit.returned, offset.returned)

search_projects(args, NAME_INDEX, CACHE) ==
    search_answer(search_term_of(args), IntArg(args, "limit", 12),
                  IntArg(args, "offset", 0), NAME_INDEX, CACHE)

(***************************************************************************)
(* app/utils/filter_utils.py.  The criteria are Python values: a price     *)
(* bound is None or a float; bhk, propertyType and locality are None, a    *)
(* string or a list of strings; transaction_type is None or a string.      *)
(***************************************************************************)
\* str.replace(c, ''): every occurrence of the character removed
Without(s, c) == SelectSeq(s, LAMBDA ch : ch # c)

\* "needle in haystack" on two strings
Contains(haystack, needle) ==
    \E i \in 0..(Len(haystack) - Len(needle)) :
        SubSeq(haystack, i + 1, i + Len(needle)) = needle

\* isinstance(x, (int, float)) for the values of the model
IsFloat(x) == IsNaN(x) \/ DOMAIN x = {"n", "d"}

\* lines 30-36: the requested bhk tokens, lowercased and not stripped
bhk_values_of(bhk) ==
    IF ~Truthy(bhk) THEN None
    ELSE IF IsStr(bhk) THEN List(<<Str(Lower(bhk.str))>>)
    ELSE List([i \in DOMAIN bhk.list |-> Str(Lower(bhk.list[i].str))])

\* lines 37-44: a string counts as a list of one; the values are stripped
\* and lowercased
stripped_lower_of(value) ==
    LET values == IF IsStr(value) THEN List(<<value>>)
                  ELSE IF Truthy(value) THEN value ELSE None
    IN  IF ~Truthy(values) THEN values
        ELSE List([i \in DOMAIN values.list |->
                      Str(Lower(Strip(values.list[i].str)))])

\* lines 50-55: prop.get("price"), and for a text price the float of the
\* text without "," and the currency glyph, None when float() raises
price_of(prop) ==
    LET prop_price == Get(prop, "price", None)
    IN  IF IsStr(prop_price)
        THEN LET parsed == ParseFloat(
                     Strip(Without(Without(prop_price.str, ","), "₹")))
             IN  IF IsRaised(parsed) THEN None ELSE parsed.returned
        ELSE IF IsNum(prop_price) THEN Float(prop_price.num)
        ELSE prop_price

\* lines 59-62: what the two price checks do with the property: "continue",
\* "raise" (an ordering comparison of a list and a float) or "pass"
price_check(prop_price, price_min, price_max) ==
    IF price_min # None /\ prop_price = None THEN "continue"
    ELSE IF price_min # None /\ ~IsFloat(prop_price) THEN "raise"
    ELSE IF price_min # None /\ Lt(prop_price, price_min) THEN "continue"
    ELSE IF price_max # None /\ prop_price = None THEN "continue"
    ELSE IF price_max # None /\ ~IsFloat(prop_price) THEN "raise"
    ELSE IF price_max # None /\ Lt(price_max, prop_price) THEN "continue"
    ELSE "pass"

bhk_check_MutantExactMatch(prop, bhk_values) ==
    IF ~Truthy(bhk_values) THEN "pass"
    ELSE LET prop_bhk == Get(prop, "bhk", EmptyStr)
         IN  IF ~IsStr(prop_bhk) THEN "raise"
             ELSE IF \E i \in DOMAIN bhk_values.list :
                         Lower(prop_bhk.str) = bhk_values.list[i].str
             THEN "pass"
             ELSE "continue"

\* lines 65-68: lower() of a bhk that is no string raises
bhk_check(prop, bhk_values) ==
    IF ~Truthy(bhk_values) THEN "pass"
    ELSE LET prop_bhk == Get(prop, "bhk", EmptyStr)
         IN  IF ~IsStr(prop_bhk) THEN "raise"
             ELSE IF \E i \in DOMAIN bhk_values.list :
                         Contains(Lower(prop_bhk.str), bhk_values.list[i].str)
             THEN "pass"
             ELSE "continue"

\* line 71
transaction_check(prop, transaction_type) ==
    IF Truthy(transaction_type)
       /\ Get(prop, "transactionType", None) # transaction_type
    THEN "continue"
    ELSE "pass"

\* lines 75-79
property_type_check(prop, propertyTypes) ==
    IF ~Truthy(propertyTypes) THEN "pass"
    ELSE LET prop_type == Get(prop, "propertyType", EmptyStr)
         IN  IF ~IsStr(prop_type) THEN "raise"
             ELSE IF \E i \in DOMAIN propertyTypes.list :
                         propertyTypes.list[i] = Str(Lower(prop_type.str))
             THEN "pass"
             ELSE "continue"

locality_check_MutantCaseSensitive(prop, localities) ==
    IF ~Truthy(localities) THEN "pass"
    ELSE LET prop_locality == Get(prop, "locality", EmptyStr)
         IN  IF IsStr(prop_locality)
             THEN IF \E i \in DOMAIN localities.list :
                         localities.list[i] = prop_locality
                  THEN "pass" ELSE "continue"
             ELSE IF ~IsList(prop_locality)
                     \/ \E j \in DOMAIN prop_locality.list :
                            ~IsStr(prop_locality.list[j])
             THEN "raise"
             ELSE IF \E i \in DOMAIN localities.list :
                         \E j \in DOMAIN prop_locality.list :
                             localities.list[i] = prop_locality.list[j]
             THEN "pass"
             ELSE "continue"

\* lines 82-92: a locality that is a string counts as a list of one; the
\* property's values are lowercased and not stripped; a locality that is
\* no string and no list of strings raises
locality_check(prop, localities) ==
    IF ~Truthy(localities) THEN "pass"
    ELSE LET prop_locality == Get(prop, "locality", EmptyStr)
         IN  IF IsStr(prop_locality)
             THEN IF \E i \in DOMAIN localities.list :
                         localities.list[i] = Str(Lower(prop_locality.str))
                  THEN "pass" ELSE "continue"
             ELSE IF ~IsList(prop_locality)
                     \/ \E j \in DOMAIN prop_locality.list :
                            ~IsStr(prop_locality.list[j])
             THEN "raise"
             ELSE IF \E i \in DOMAIN localities.list :
                         \E j \in DOMAIN prop_locality.list :
                             localities.list[i] =
                                 Str(Lower(prop_locality.list[j].str))
             THEN "pass"
             ELSE "continue"

first_stop_MutantLastOnly(checks) == checks[Len(checks)]

\* the first of the checks, in the order of the loop body, that does not
\* let the property pass, "pass" when every one does
first_stop(checks) ==
    IF \A i \in DOMAIN checks : checks[i] = "pass" THEN "pass"
    ELSE checks[CHOOSE i \in DOMAIN checks :
                    /\ checks[i] # "pass"
                    /\ \A j \in 1..(i - 1) : checks[j] = "pass"]

\* One iteration of the loop of filter_residential_properties, lines 47-99:
\* "pass" when the property is appended, "continue" when a criterion
\* rejects it, "raise" when the body raises (prop.get on None, or one of
\* the checks) and the except clause goes on with the next property.
residential_iteration(prop, price_min, price_max, bhk_values, transaction_type, propertyTypes, localities) ==
    IF prop = None THEN "raise"
    ELSE first_stop(<< price_check(price_of(prop), price_min, price_max),
                       bhk_check(prop, bhk_values),
                       transaction_check(prop, transaction_type),
                       property_type_check(prop, propertyTypes),
                       locality_check(prop, localities) >>)

\* the same for filter_commercial_properties, lines 135-181: no bhk check
commercial_iteration(prop, price_min, price_max, transaction_type, propertyTypes, localities) ==
    IF prop = None THEN "raise"
    ELSE first_stop(<< price_check(price_of(prop), price_min, price_max),
                       transaction_check(prop, transaction_type),
                       property_type_check(prop, propertyTypes),
                       locality_check(prop, localities) >>)

filter_residential_properties_MutantStopsAtRaise(properties, price_min, price_max, bhk, transaction_type, propertyType, locality) ==
    LET outcome(prop) ==
            residential_iteration(prop, price_min, price_max,
                                  bhk_values_of(bhk), transaction_type,
                                  stripped_lower_of(propertyType),
                                  stripped_lower_of(locality))
        raising == {i \in DOMAIN properties : outcome(properties[i]) = "raise"}
        visited == IF raising = {} THEN properties
                   ELSE SubSeq(properties, 1,
                               (CHOOSE i \in raising :
                                    \A j \in raising : i <= j) - 1)
    IN  SelectSeq(visited, LAMBDA prop : outcome(prop) = "pass")

filter_residential_properties(properties, price_min, price_max, bhk, transaction_type, propertyType, locality) ==
    SelectSeq(properties,
              LAMBDA prop :
                  residential_iteration(prop, price_min, price_max,
                                        bhk_values_of(bhk), transaction_type,
                                        stripped_lower_of(propertyType),
                                        stripped_lower_of(locality)) = "pass")

filter_commercial_properties(properties, price_min, price_max, transaction_type, propertyType, locality) ==
    SelectSeq(properties,
              LAMBDA prop :
                  commercial_iteration(prop, price_min, price_max,
                                       transaction_type,
                                       stripped_lower_of(propertyType),
                                       stripped_lower_of(locality)) = "pass")

(***************************************************************************)
(* app/routes/properties.py, lines 78-197 and 199-314: the listings of     *)
(* the properties, after their readiness guard.                            *)
(***************************************************************************)
\* request.args.get(name): None when the query string lacks the parameter
ArgOf(args, name) == IF name \in DOMAIN args THEN Str(args[name]) ELSE None

\* lines 103-106: "float(x) if x else None"
FloatArg(args, name) ==
    IF name \in DOMAIN args /\ args[name] # <<>>
    THEN ParseFloat(args[name]) ELSE Returned(None)

\* lines 109-116: 'x.split(",") if x and "," in x else x'
ListArg(args, name) ==
    IF name \in DOMAIN args /\ \E i \in DOMAIN args[name] : args[name][i] = ","
    THEN List(Map(Str, Split(args[name])))
    ELSE ArgOf(args, name)

\* lines 122-130: the call of the attribute filter on the parsed criteria
residential_filtered(args, properties_cache, price_min, price_max) ==
    IF IsRaised(price_min) \/ IsRaised(price_max) THEN <<>>
    ELSE filter_residential_properties(
             properties_cache, price_min.returned, price_max.returned,
             ListArg(args, "bhk"), ArgOf(args, "transactionType"),
             ListArg(args, "propertyType"), ListArg(args, "locality"))

\* lines 239-246
commercial_filtered(args, properties_cache, price_min, price_max) ==
    IF IsRaised(price_min) \/ IsRaised(price_max) THEN <<>>
    ELSE filter_commercial_properties(
             properties_cache, price_min.returned, price_max.returned,
             ArgOf(args, "transactionType"),
             ListArg(args, "propertyType"), ListArg(args, "locality"))

\* The handler on the outcomes of its four conversions, in the order of
\* the code: the prices, the filter, limit and offset (clamped from below
\* only), then the viewport page or the regular page.  A ValueError is
\* answered 400 with the text of the exception, of which the model keeps
\* the origin.
properties_answer(args, price_min, price_max, filtered_properties, limit, offset) ==
    IF IsRaised(price_min) \/ IsRaised(price_max)
    THEN Error(400, "could not convert string to float")
    ELSE IF IsRaised(limit) \/ IsRaised(offset)
    THEN Error(400, "invalid literal for int()")
    ELSE IF has_viewport(args)
    THEN viewport_answer(
             get_properties_in_viewport(
                 filtered_properties,
                 [minLat |-> args["minLat"], maxLat |-> args["maxLat"],
                  minLng |-> args["minLng"], maxLng |-> args["maxLng"]],
                 [page |-> 1,
                  limit |-> Max(1, limit.returned),
                  offset |-> Max(0, offset.returned)]))
    ELSE Response(200, regular_page(filtered_properties,
                                    Max(1, limit.returned),
                                    Max(0, offset.returned)))

residential_properties_parsed(args, properties_cache, price_min, price_max) ==
    properties_answer(
        args, price_min, price_max,
        residential_filtered(args, properties_cache, price_min, price_max),
        IntArg(args, "limit", 12), IntArg(args, "offset", 0))

commercial_properties_parsed(args, properties_cache, price_min, price_max) ==
    properties_answer(
        args, price_min, price_max,
        commercial_filtered(args, properties_cache, price_min, price_max),
        IntArg(args, "limit", 12), IntArg(args, "offset", 0))

\* get_residential_properties
residential_properties_route(args, properties_cache) ==
    residential_properties_parsed(args, properties_cache,
                                  FloatArg(args, "priceMin"),
                                  FloatArg(args, "priceMax"))

\* get_commercial_properties
commercial_properties_route(args, properties_cache) ==
    commercial_properties_parsed(args, properties_cache,
                                 FloatArg(args, "priceMin"),
                                 FloatArg(args, "priceMax"))

(***************************************************************************)
(* State: the globals of cache_service.py and the threads.                 *)
(***************************************************************************)
VARIABLES
    RESIDENTIAL_PROJECTS_CACHE,
    COMMERCIAL_PROJECTS_CACHE,
    RESIDENTIAL_PROPERTIES_CACHE,
    COMMERCIAL_PROPERTIES_CACHE,
    LOCALITIES_CACHE,
    COMMERCIAL_PROJECTS_NAME_INDEX,
    RESIDENTIAL_PROJECTS_NAME_INDEX,
    CACHE_INITIALIZATION_STARTED,
    CACHE_INITIALIZED,
    \* callers[c]: the position of request thread c in
    \* ensure_cache_initialized() and, history, the value of
    \* CACHE_INITIALIZATION_STARTED when the call in progress was entered
    callers,
    \* history: what the latest call of ensure_cache_initialized() to return
    \* returned, and the started flag at its entry
    last_return,
    \* runs[r]: the position of thread r in init_cache() and its locals
    runs,
    \* the administrative thread: its position in update_cache(), what its
    \* last call returned, and the number of calls made
    admin,
    \* history: the globals at the entry of the update_cache() in progress
    before_refresh,
    \* history: what each population run that set CACHE_INITIALIZED produced
    published,
    \* serving[c]: request thread c is inside a route handler, past its
    \* readiness guard
    serving,
    \* dicts[index]: the keys of the dict the index global is bound to, in
    \* insertion order (keys), and the dicts the index global of src/app.py
    \* was bound to earlier, each as it was when the global was bound anew
    \* (left): a search handler of src/app.py may still hold one of them
    dicts,
    \* history: the latest call of the query engine or of a route handler,
    \* what it answered, and the call before it when the latest one is its
    \* follow-up (the next page)
    request,
    response,
    previous

collections == <<RESIDENTIAL_PROJECTS_CACHE, COMMERCIAL_PROJECTS_CACHE,
                 RESIDENTIAL_PROPERTIES_CACHE, COMMERCIAL_PROPERTIES_CACHE,
                 LOCALITIES_CACHE>>
indices == <<COMMERCIAL_PROJECTS_NAME_INDEX, RESIDENTIAL_PROJECTS_NAME_INDEX>>
flags == <<CACHE_INITIALIZATION_STARTED, CACHE_INITIALIZED>>
globals == <<collections, indices, flags>>
\* the state of the routes
http == <<serving, dicts, request, response, previous>>
vars == <<globals, callers, last_return, runs, admin, before_refresh, published,
          http>>

\* {}
EmptyIndex == [k \in {} |-> <<>>]

\* a request thread that is not inside a route handler
Outside == [pc |-> "outside"]

IndexNames == {"COMMERCIAL_PROJECTS_NAME_INDEX", "RESIDENTIAL_PROJECTS_NAME_INDEX"}

\* both index globals are bound to the {} of the import
NoneRetired == [what \in IndexNames |-> [keys |-> <<>>, left |-> <<>>]]

\* a thread that is not inside init_cache(): before its run ("idle") or after
\* it ("done"), with the way the run ended and whether its five fetches all
\* returned
NoRun(pc, outcome, fetched) ==
    [pc |-> pc, outcome |-> outcome, fetched |-> fetched,
     records |-> <<>>, commercial_records |-> <<>>,
     residential_inventory_records |-> <<>>,
     commercial_inventory_records |-> <<>>,
     localities_records |-> <<>>,
     \* the entries a comprehension of lines 87-95 has formatted so far
     formatted |-> <<>>,
     \* the list a builder enumerates, its position in it and its line
     projects |-> <<>>, idx |-> 0, step |-> "reset",
     \* the statements of the init_cache() the thread runs: its try block and
     \* its except block
     program |-> <<>>, handler |-> <<>>,
     wrote |-> {}]

Init ==
    /\ RESIDENTIAL_PROJECTS_CACHE = <<>>
    /\ COMMERCIAL_PROJECTS_CACHE = <<>>
    /\ RESIDENTIAL_PROPERTIES_CACHE = <<>>
    /\ COMMERCIAL_PROPERTIES_CACHE = <<>>
    /\ LOCALITIES_CACHE = <<>>
    /\ COMMERCIAL_PROJECTS_NAME_INDEX = EmptyIndex
    /\ RESIDENTIAL_PROJECTS_NAME_INDEX = EmptyIndex
    /\ CACHE_INITIALIZATION_STARTED = FALSE
    /\ CACHE_INITIALIZED = FALSE
    /\ callers = [c \in Callers |-> [pc |-> "idle", entryStarted |-> FALSE]]
    /\ last_return = [value |-> "none", entryStarted |-> FALSE]
    /\ runs = [r \in RunIds |-> NoRun("idle", "none", FALSE)]
    /\ admin = [pc |-> "idle", result |-> "none", total_projects |-> 0,
                calls |-> 0]
    /\ before_refresh = None
    /\ published = {}
    /\ serving = [c \in Callers |-> Outside]
    /\ dicts = NoneRetired
    /\ request = None
    /\ response = None
    /\ previous = None

(***************************************************************************)
(* init_cache(): the statements of its try block, in order.  A thread      *)
(* executes them one access to a global at a time; other threads run in    *)
(* between.                                                                *)
(***************************************************************************)
init_cache_MutantFlagBeforeIndices ==
    << "fetch_residential_projects", "fetch_commercial_projects",
       "fetch_residential_properties", "fetch_commercial_properties",
       "fetch_localities",
       "store_residential_projects", "store_commercial_projects",
       "store_residential_properties", "store_commercial_properties",
       "store_localities",
       "set_initialized",
       "build_commercial_projects_index", "build_residential_projects_index" >>

init_cache ==
    << "fetch_residential_projects", "fetch_commercial_projects",
       "fetch_residential_properties", "fetch_commercial_properties",
       "fetch_localities",
       "store_residential_projects", "store_commercial_projects",
       "store_residential_properties", "store_commercial_properties",
       "store_localities",
       "build_commercial_projects_index", "build_residential_projects_index",
       "set_initialized" >>

\* the except block, lines 107-111: one assignment after the other
except_block ==
    << "clear_residential_projects", "clear_commercial_projects",
       "clear_residential_properties", "clear_commercial_properties",
       "clear_localities" >>

\* init_cache() of src/app.py, lines 308-345: no commercial properties, and
\* line 336 reads RESIDENTIAL_PROPERTIES_CACHE for its message
legacy_init_cache ==
    << "fetch_residential_projects", "fetch_commercial_projects",
       "fetch_residential_properties", "fetch_localities",
       "store_residential_projects", "store_commercial_projects",
       "store_residential_properties", "store_localities",
       "build_commercial_projects_index", "build_residential_projects_index",
       "print_initialized", "set_initialized" >>

\* its except block, lines 342-345
legacy_except_block ==
    << "clear_residential_projects", "clear_commercial_projects",
       "clear_residential_properties", "clear_localities" >>

PositionIn(seq, pc) == CHOOSE i \in DOMAIN seq : seq[i] = pc

\* the run record at the start of a statement: no comprehension and no loop
\* is under way
AtStatement(run, pc) ==
    [run EXCEPT !.pc = pc, !.formatted = <<>>, !.projects = <<>>,
                !.idx = 0, !.step = "reset"]

\* the run record after the statement at its pc completed normally
Advance(run) ==
    LET i == PositionIn(run.program, run.pc)
    IN  IF i = Len(run.program)
        THEN NoRun("done", "ok", run.fetched)
        ELSE AtStatement(run, run.program[i + 1])

\* the run record after the statement at its pc raised: control enters the
\* except block
Raise(run) == AtStatement(run, run.handler[1])

\* a thread entering init_cache() of app/services/cache_service.py
StartRun ==
    [NoRun("idle", "none", FALSE) EXCEPT !.pc = init_cache[1],
                                         !.program = init_cache,
                                         !.handler = except_block]

\* a thread entering init_cache() of src/app.py
LegacyStartRun ==
    [NoRun("idle", "none", FALSE) EXCEPT !.pc = legacy_init_cache[1],
                                         !.program = legacy_init_cache,
                                         !.handler = legacy_except_block]

InFlight(r) == runs[r].pc \notin {"idle", "done"}

\* history: a write of a global by a thread other than the one inside
\* update_cache() is recorded, the snapshot is then of no further use
Interfere(r) ==
    before_refresh' =
        IF r # Admin /\ before_refresh # None
        THEN [clean |-> FALSE]
        ELSE before_refresh

\* Lines 62-80: a fetch and the sleep after it, which touch no global.  The
\* fetch returns a list, kept in the local of the run, or raises, which
\* enters the except block.
Fetch(r, local, feeds) ==
    /\ \/ \E feed \in feeds :
            runs' = [runs EXCEPT ![r] =
                        Advance([runs[r] EXCEPT
                                   ![local] = feed,
                                   !.fetched = (local = "localities_records")])]
       \/ runs' = [runs EXCEPT ![r] = Raise(runs[r])]
    /\ UNCHANGED <<globals, callers, last_return, admin, before_refresh, published>>
    /\ UNCHANGED http

\* lines 62-64
FetchResidentialProjects(r) ==
    /\ runs[r].pc = "fetch_residential_projects"
    /\ Fetch(r, "records", ResidentialProjectFeeds)

\* lines 66-68
FetchCommercialProjects(r) ==
    /\ runs[r].pc = "fetch_commercial_projects"
    /\ Fetch(r, "commercial_records", CommercialProjectFeeds)

\* lines 70-72
FetchResidentialProperties(r) ==
    /\ runs[r].pc = "fetch_residential_properties"
    /\ Fetch(r, "residential_inventory_records", ResidentialPropertyFeeds)

\* lines 74-76
FetchCommercialProperties(r) ==
    /\ runs[r].pc = "fetch_commercial_properties"
    /\ Fetch(r, "commercial_inventory_records", CommercialPropertyFeeds)

\* lines 78-80
FetchLocalities(r) ==
    /\ runs[r].pc = "fetch_localities"
    /\ Fetch(r, "localities_records", LocalityFeeds)

\* the run record after an assignment to the global named what
Wrote(run, what) == Advance([run EXCEPT !.wrote = @ \cup {what}])

\* line 83: the comprehension reads locals only
StoreResidentialProjects(r) ==
    /\ runs[r].pc = "store_residential_projects"
    /\ RESIDENTIAL_PROJECTS_CACHE' =
           Map(format_residential_project, runs[r].records)
    /\ runs' = [runs EXCEPT ![r] = Wrote(runs[r], "RESIDENTIAL_PROJECTS_CACHE")]
    /\ Interfere(r)
    /\ UNCHANGED <<COMMERCIAL_PROJECTS_CACHE, RESIDENTIAL_PROPERTIES_CACHE,
                   COMMERCIAL_PROPERTIES_CACHE, LOCALITIES_CACHE, indices,
                   flags, callers, admin, last_return, published>>
    /\ UNCHANGED http

StoreCommercialProjects_MutantAborts(r) ==
    /\ runs[r].pc = "store_commercial_projects"
    /\ IF \E i \in DOMAIN runs[r].commercial_records :
              format_commercial_project(runs[r].commercial_records[i]) = None
       THEN /\ runs' = [runs EXCEPT ![r] = Raise(runs[r])]
            /\ UNCHANGED <<COMMERCIAL_PROJECTS_CACHE, before_refresh>>
       ELSE /\ COMMERCIAL_PROJECTS_CACHE' =
                   Map(format_commercial_project, runs[r].commercial_records)
            /\ runs' = [runs EXCEPT ![r] =
                            Wrote(runs[r], "COMMERCIAL_PROJECTS_CACHE")]
            /\ Interfere(r)
    /\ UNCHANGED <<RESIDENTIAL_PROJECTS_CACHE, RESIDENTIAL_PROPERTIES_CACHE,
                   COMMERCIAL_PROPERTIES_CACHE, LOCALITIES_CACHE, indices,
                   flags, callers, admin, last_return, published>>
    /\ UNCHANGED http

\* line 84
StoreCommercialProjects(r) ==
    /\ runs[r].pc = "store_commercial_projects"
    /\ COMMERCIAL_PROJECTS_CACHE' =
           Map(format_commercial_project, runs[r].commercial_records)
    /\ runs' = [runs EXCEPT ![r] = Wrote(runs[r], "COMMERCIAL_PROJECTS_CACHE")]
    /\ Interfere(r)
    /\ UNCHANGED <<RESIDENTIAL_PROJECTS_CACHE, RESIDENTIAL_PROPERTIES_CACHE,
                   COMMERCIAL_PROPERTIES_CACHE, LOCALITIES_CACHE, indices,
                   flags, callers, admin, last_return, published>>
    /\ UNCHANGED http

\* Lines 87-90: the comprehension loads the global RESIDENTIAL_PROJECTS_CACHE,
\* whatever thread assigned it last, once for every record and formats the
\* record with it; the list is assigned when every record is formatted.
StoreResidentialProperties(r) ==
    /\ runs[r].pc = "store_residential_properties"
    /\ LET records == runs[r].residential_inventory_records
           n == Len(runs[r].formatted)
       IN  IF n < Len(records)
           THEN /\ runs' = [runs EXCEPT ![r].formatted =
                       Append(@, format_residential_property(
                                     records[n + 1],
                                     RESIDENTIAL_PROJECTS_CACHE))]
                /\ UNCHANGED <<RESIDENTIAL_PROPERTIES_CACHE, before_refresh>>
           ELSE /\ RESIDENTIAL_PROPERTIES_CACHE' = runs[r].formatted
                /\ runs' = [runs EXCEPT ![r] =
                                Wrote(runs[r], "RESIDENTIAL_PROPERTIES_CACHE")]
                /\ Interfere(r)
    /\ UNCHANGED <<RESIDENTIAL_PROJECTS_CACHE, COMMERCIAL_PROJECTS_CACHE,
                   COMMERCIAL_PROPERTIES_CACHE, LOCALITIES_CACHE, indices,
                   flags, callers, admin, last_return, published>>
    /\ UNCHANGED http

\* Lines 92-95: as lines 87-90, with COMMERCIAL_PROJECTS_CACHE, which the
\* formatter does not look at.
StoreCommercialProperties(r) ==
    /\ runs[r].pc = "store_commercial_properties"
    /\ LET records == runs[r].commercial_inventory_records
           n == Len(runs[r].formatted)
       IN  IF n < Len(records)
           THEN /\ runs' = [runs EXCEPT ![r].formatted =
                       Append(@, format_commercial_property(
                                     records[n + 1],
                                     COMMERCIAL_PROJECTS_CACHE))]
                /\ UNCHANGED <<COMMERCIAL_PROPERTIES_CACHE, before_refresh>>
           ELSE /\ COMMERCIAL_PROPERTIES_CACHE' = runs[r].formatted
                /\ runs' = [runs EXCEPT ![r] =
                                Wrote(runs[r], "COMMERCIAL_PROPERTIES_CACHE")]
                /\ Interfere(r)
    /\ UNCHANGED <<RESIDENTIAL_PROJECTS_CACHE, COMMERCIAL_PROJECTS_CACHE,
                   RESIDENTIAL_PROPERTIES_CACHE, LOCALITIES_CACHE, indices,
                   flags, callers, admin, last_return, published>>
    /\ UNCHANGED http

\* line 97
StoreLocalities(r) ==
    /\ runs[r].pc = "store_localities"
    /\ LOCALITIES_CACHE' = Map(format_locality, runs[r].localities_records)
    /\ runs' = [runs EXCEPT ![r] = Wrote(runs[r], "LOCALITIES_CACHE")]
    /\ Interfere(r)
    /\ UNCHANGED <<RESIDENTIAL_PROJECTS_CACHE, COMMERCIAL_PROJECTS_CACHE,
                   RESIDENTIAL_PROPERTIES_CACHE, COMMERCIAL_PROPERTIES_CACHE,
                   indices, flags, callers, admin, last_return, published>>
    /\ UNCHANGED http

(***************************************************************************)
(* build_commercial_projects_index / build_residential_projects_index,     *)
(* lines 25-49: the index global is bound to a new {} and the loop adds    *)
(* the positions of the named entities, until an iteration raises.  Every  *)
(* line of the loop names the global anew, so that the dict it reads or    *)
(* changes is the one bound to the global then, whatever thread bound it.  *)
(***************************************************************************)
\* index[name_key].append(idx), after index[name_key] = [] for a new key
IndexAppend(index, name_key, idx) ==
    [k \in DOMAIN index \cup {name_key} |->
        IF k = name_key
        THEN Append(Get(index, name_key, <<>>), idx)
        ELSE index[k]]

\* project['name'].lower() raises when the name is truthy and no string
IterationRaises(project) ==
    project # None /\ Truthy(project.name) /\ ~IsStr(project.name)

\* The loop from position idx (from 0) on, with index built so far and its
\* keys in insertion order, when no other thread runs: the index it leaves,
\* its keys in insertion order and whether it raised.
RECURSIVE build_index_loop(_, _, _, _)
build_index_loop(cache, idx, index, keys) ==
    IF idx >= Len(cache)
    THEN [index |-> index, keys |-> keys, raised |-> FALSE]
    ELSE LET project == cache[idx + 1]
             named == project # None /\ Truthy(project.name)
         IN  IF IterationRaises(project)
             THEN [index |-> index, keys |-> keys, raised |-> TRUE]
             ELSE build_index_loop(
                      cache, idx + 1,
                      IF named
                      THEN IndexAppend(index, Lower(project.name.str), idx)
                      ELSE index,
                      IF named /\ Lower(project.name.str) \notin DOMAIN index
                      THEN Append(keys, Lower(project.name.str))
                      ELSE keys)

\* a builder that no other thread interleaves
build_projects_index(cache) == build_index_loop(cache, 0, EmptyIndex, <<>>)

\* line 31 / 44: if project and project.get('name')
Named(project) == project # None /\ Truthy(project.name)

\* the position (from 0) of the first named project from idx on, the
\* length of the list when there is none: the iterations before it touch no
\* global
NextNamed(projects, idx) ==
    LET named == {j \in idx..(Len(projects) - 1) : Named(projects[j + 1])}
    IN  IF named = {} THEN Len(projects)
        ELSE CHOOSE j \in named : \A k \in named : j <= k

\* The run record when the loop over projects goes on from position idx: at
\* line 34 / 47 for the next named project, in the except block when the
\* lower() of its name raises, after the builder when no project is left.
Iterate(run, projects, idx, what) ==
    LET j == NextNamed(projects, idx)
    IN  IF j = Len(projects) THEN Wrote(run, what)
        ELSE IF IterationRaises(projects[j + 1]) THEN Raise(run)
        ELSE [run EXCEPT !.projects = projects, !.idx = j, !.step = "test"]

\* name_key of the iteration the loop is in
name_key_of(run) == Lower(run.projects[run.idx + 1].name.str)

\* One line of a builder, run by a thread with record run while the
\* collection global holds cache and the index global holds index: the
\* record and the index after it.
\*   "reset"      line 28 / 41   INDEX = {}
\*   "enumerate"  line 30 / 43   for idx, project in enumerate(CACHE)
\*   "test"       line 34 / 47   if name_key not in INDEX
\*   "new_key"    line 35 / 48   INDEX[name_key] = []
\*   "append"     line 36 / 49   INDEX[name_key].append(idx), a KeyError when
\*                               the dict bound to INDEX has no such key
build_index_line(run, cache, index, what) ==
    CASE run.step = "reset" ->
             [run |-> [run EXCEPT !.step = "enumerate"], index |-> EmptyIndex]
      [] run.step = "enumerate" ->
             [run |-> Iterate(run, cache, 0, what), index |-> index]
      [] run.step = "test" ->
             [run |-> [run EXCEPT !.step =
                          IF name_key_of(run) \in DOMAIN index
                          THEN "append" ELSE "new_key"],
              index |-> index]
      [] run.step = "new_key" ->
             [run |-> [run EXCEPT !.step = "append"],
              index |-> [k \in DOMAIN index \cup {name_key_of(run)} |->
                            IF k = name_key_of(run) THEN <<>> ELSE index[k]]]
      [] run.step = "append" ->
             IF name_key_of(run) \notin DOMAIN index
             THEN [run |-> Raise(run), index |-> index]
             ELSE [run |-> Iterate(run, run.projects, run.idx + 1, what),
                   index |-> IndexAppend(index, name_key_of(run), run.idx)]

\* history: the lines of a builder that write the index
WritesIndex(run) == run.step \in {"reset", "new_key", "append"}

\* The dicts of the index global named what after a line of a builder.
\* Line 28 / 41 binds the global to a new dict and leaves the one that was
\* bound to it as it is then; that one is recorded for src/app.py only: no
\* handler of app/routes holds a dict of cache_service.py across
\* statements.  Line 35 / 48 adds the key after the others, unless another
\* thread put it into the dict since line 34 / 47, and then it keeps its
\* place.
Retired(run, index, what) ==
    CASE run.step = "reset" ->
             [dicts EXCEPT
                 ![what].keys = <<>>,
                 ![what].left =
                     IF run.program = legacy_init_cache
                     THEN Append(@, PyDict(dicts[what].keys, index))
                     ELSE @]
      [] run.step = "new_key" /\ name_key_of(run) \notin DOMAIN index ->
             [dicts EXCEPT ![what].keys = Append(@, name_key_of(run))]
      [] OTHER -> dicts

BuildCommercialProjectsIndex(r) ==
    /\ runs[r].pc = "build_commercial_projects_index"
    /\ LET line == build_index_line(runs[r], COMMERCIAL_PROJECTS_CACHE,
                                    COMMERCIAL_PROJECTS_NAME_INDEX,
                                    "COMMERCIAL_PROJECTS_NAME_INDEX")
       IN  /\ COMMERCIAL_PROJECTS_NAME_INDEX' = line.index
           /\ runs' = [runs EXCEPT ![r] = line.run]
    /\ dicts' = Retired(runs[r], COMMERCIAL_PROJECTS_NAME_INDEX,
                          "COMMERCIAL_PROJECTS_NAME_INDEX")
    /\ IF WritesIndex(runs[r]) THEN Interfere(r) ELSE UNCHANGED before_refresh
    /\ UNCHANGED <<collections, RESIDENTIAL_PROJECTS_NAME_INDEX, flags,
                   callers, admin, last_return, published>>
    /\ UNCHANGED <<serving, request, response, previous>>

BuildResidentialProjectsIndex(r) ==
    /\ runs[r].pc = "build_residential_projects_index"
    /\ LET line == build_index_line(runs[r], RESIDENTIAL_PROJECTS_CACHE,
                                    RESIDENTIAL_PROJECTS_NAME_INDEX,
                                    "RESIDENTIAL_PROJECTS_NAME_INDEX")
       IN  /\ RESIDENTIAL_PROJECTS_NAME_INDEX' = line.index
           /\ runs' = [runs EXCEPT ![r] = line.run]
    /\ dicts' = Retired(runs[r], RESIDENTIAL_PROJECTS_NAME_INDEX,
                          "RESIDENTIAL_PROJECTS_NAME_INDEX")
    /\ IF WritesIndex(runs[r]) THEN Interfere(r) ELSE UNCHANGED before_refresh
    /\ UNCHANGED <<collections, COMMERCIAL_PROJECTS_NAME_INDEX, flags,
                   callers, admin, last_return, published>>
    /\ UNCHANGED <<serving, request, response, previous>>

(***************************************************************************)
(* The description of what a population run produces from the lists it     *)
(* fetched, used to tell the output of one run from a mixture.             *)
(***************************************************************************)
\* the positions (from 0) of the entities of cache that lowercase to key
PositionsOf(cache, key) ==
    {i - 1 : i \in {j \in DOMAIN cache :
                       /\ cache[j] # None
                       /\ IsStr(cache[j].name)
                       /\ cache[j].name.str # <<>>
                       /\ Lower(cache[j].name.str) = key}}

RECURSIVE Ascending(_)
Ascending(S) ==
    IF S = {} THEN <<>>
    ELSE LET m == CHOOSE x \in S : \A y \in S : x <= y
         IN  <<m>> \o Ascending(S \ {m})

\* the index that is consistent with cache: lowercased name -> positions
NameIndexOf(cache) ==
    LET keys == {Lower(cache[j].name.str) :
                    j \in {i \in DOMAIN cache :
                              /\ cache[i] # None
                              /\ IsStr(cache[i].name)
                              /\ cache[i].name.str # <<>>}}
    IN  [k \in keys |-> Ascending(PositionsOf(cache, k))]

\* what thread r produces when nothing interferes, from the lists it fetched
OutputOf(run) ==
    LET rp == Map(format_residential_project, run.records)
        cp == Map(format_commercial_project, run.commercial_records)
    IN  << <<rp, cp,
             Map2(format_residential_property,
                  run.residential_inventory_records, rp),
             Map2(format_commercial_property,
                  run.commercial_inventory_records, cp),
             Map(format_locality, run.localities_records)>>,
           <<NameIndexOf(cp), NameIndexOf(rp)>> >>

\* src/app.py line 336: the message reads RESIDENTIAL_PROPERTIES_CACHE
PrintInitialized(r) ==
    /\ runs[r].pc = "print_initialized"
    /\ runs' = [runs EXCEPT ![r] = Advance(runs[r])]
    /\ UNCHANGED <<globals, callers, admin, last_return, before_refresh,
                   published>>
    /\ UNCHANGED http

\* line 104
SetInitialized(r) ==
    /\ runs[r].pc = "set_initialized"
    /\ CACHE_INITIALIZED' = TRUE
    /\ runs' = [runs EXCEPT ![r] = Advance(runs[r])]
    /\ published' = published \cup
            {[wrote |-> runs[r].wrote, output |-> OutputOf(runs[r])]}
    /\ Interfere(r)
    /\ UNCHANGED <<collections, indices, CACHE_INITIALIZATION_STARTED,
                   callers, admin, last_return>>
    /\ UNCHANGED http

(***************************************************************************)
(* The except block, lines 105-111: the five collections are bound to [],  *)
(* one assignment at a time.  Neither index nor either flag is assigned.   *)
(* init_cache() then returns normally: the exception is not raised again.  *)
(***************************************************************************)
InExcept(r) ==
    runs[r].pc \in {runs[r].handler[i] : i \in DOMAIN runs[r].handler}

\* the run record after the assignment at its pc
Cleared(run) ==
    LET i == PositionIn(run.handler, run.pc)
    IN  IF i = Len(run.handler)
        THEN NoRun("done", "failed", run.fetched)
        ELSE [run EXCEPT !.pc = run.handler[i + 1]]

\* the value of a collection after the assignment at pc
ClearedBy(pc, statement, collection) ==
    IF pc = statement THEN <<>> ELSE collection

Except_MutantClearsInitialized(r) ==
    /\ InExcept(r)
    /\ RESIDENTIAL_PROJECTS_CACHE' =
           ClearedBy(runs[r].pc, "clear_residential_projects",
                     RESIDENTIAL_PROJECTS_CACHE)
    /\ COMMERCIAL_PROJECTS_CACHE' =
           ClearedBy(runs[r].pc, "clear_commercial_projects",
                     COMMERCIAL_PROJECTS_CACHE)
    /\ RESIDENTIAL_PROPERTIES_CACHE' =
           ClearedBy(runs[r].pc, "clear_residential_properties",
                     RESIDENTIAL_PROPERTIES_CACHE)
    /\ COMMERCIAL_PROPERTIES_CACHE' =
           ClearedBy(runs[r].pc, "clear_commercial_properties",
                     COMMERCIAL_PROPERTIES_CACHE)
    /\ LOCALITIES_CACHE' =
           ClearedBy(runs[r].pc, "clear_localities", LOCALITIES_CACHE)
    /\ CACHE_INITIALIZED' = FALSE
    /\ runs' = [runs EXCEPT ![r] = Cleared(runs[r])]
    /\ Interfere(r)
    /\ UNCHANGED <<indices, CACHE_INITIALIZATION_STARTED, callers, admin,
                   last_return, published>>
    /\ UNCHANGED http

\* one of lines 107-111
Except(r) ==
    /\ InExcept(r)
    /\ RESIDENTIAL_PROJECTS_CACHE' =
           ClearedBy(runs[r].pc, "clear_residential_projects",
                     RESIDENTIAL_PROJECTS_CACHE)
    /\ COMMERCIAL_PROJECTS_CACHE' =
           ClearedBy(runs[r].pc, "clear_commercial_projects",
                     COMMERCIAL_PROJECTS_CACHE)
    /\ RESIDENTIAL_PROPERTIES_CACHE' =
           ClearedBy(runs[r].pc, "clear_residential_properties",
                     RESIDENTIAL_PROPERTIES_CACHE)
    /\ COMMERCIAL_PROPERTIES_CACHE' =
           ClearedBy(runs[r].pc, "clear_commercial_properties",
                     COMMERCIAL_PROPERTIES_CACHE)
    /\ LOCALITIES_CACHE' =
           ClearedBy(runs[r].pc, "clear_localities", LOCALITIES_CACHE)
    /\ runs' = [runs EXCEPT ![r] = Cleared(runs[r])]
    /\ Interfere(r)
    /\ UNCHANGED <<indices, flags, callers, admin, last_return, published>>
    /\ UNCHANGED http

(***************************************************************************)
(* ensure_cache_initialized(), lines 113-128: two reads and one write of   *)
(* the flags, the start of the thread and the return after it, each a step *)
(* of its own.                                                             *)
(***************************************************************************)
Return(c, value, entryStarted) ==
    /\ callers' = [callers EXCEPT ![c] = [pc |-> "idle", entryStarted |-> FALSE]]
    /\ last_return' = [value |-> value, entryStarted |-> entryStarted]

\* line 118: if CACHE_INITIALIZED
AlreadyInitialized == CACHE_INITIALIZED

InitializationInProgress_MutantNeverInProgress == FALSE

\* line 122: if CACHE_INITIALIZATION_STARTED
InitializationInProgress == CACHE_INITIALIZATION_STARTED

\* entry of the call and lines 118-119
EnsureCheckInitialized(c) ==
    /\ callers[c].pc = "idle"
    /\ IF AlreadyInitialized
       THEN Return(c, "True", CACHE_INITIALIZATION_STARTED)
       ELSE /\ callers' = [callers EXCEPT ![c] =
                   [pc |-> "check_started",
                    entryStarted |-> CACHE_INITIALIZATION_STARTED]]
            /\ UNCHANGED last_return
    /\ UNCHANGED <<globals, runs, admin, before_refresh, published>>

\* lines 122-123
EnsureCheckStarted(c) ==
    /\ callers[c].pc = "check_started"
    /\ IF InitializationInProgress
       THEN Return(c, "False", callers[c].entryStarted)
       ELSE /\ callers' = [callers EXCEPT ![c].pc = "set_started"]
            /\ UNCHANGED last_return
    /\ UNCHANGED <<globals, runs, admin, before_refresh, published>>

\* line 126: the flag is set
EnsureSetStarted(c) ==
    /\ callers[c].pc = "set_started"
    /\ CACHE_INITIALIZATION_STARTED' = TRUE
    /\ callers' = [callers EXCEPT ![c].pc = "start_thread"]
    /\ Interfere(c)
    /\ UNCHANGED <<collections, indices, CACHE_INITIALIZED, runs, admin,
                   last_return, published>>

\* line 127: the thread that runs _initialize_cache_in_background, hence
\* init_cache, is started
EnsureStartThread(c) ==
    /\ callers[c].pc = "start_thread"
    /\ runs' = [runs EXCEPT ![c] = StartRun]
    /\ callers' = [callers EXCEPT ![c].pc = "return"]
    /\ UNCHANGED <<globals, admin, last_return, before_refresh, published>>

\* line 128
EnsureReturn(c) ==
    /\ callers[c].pc = "return"
    /\ Return(c, "False", callers[c].entryStarted)
    /\ UNCHANGED <<globals, runs, admin, before_refresh, published>>

(***************************************************************************)
(* update_cache(), lines 140-147: init_cache() run by the calling thread,  *)
(* then the result.  init_cache() catches every exception itself, so       *)
(* control always reaches the return statement.                            *)
(***************************************************************************)
\* the "status" of the mapping update_cache() returns after a run that ended
\* with outcome
update_cache_status(outcome) == "success"

UpdateCacheCall ==
    /\ admin.pc = "idle"
    /\ admin.calls < MaxRefresh
    /\ admin' = [pc |-> "running", result |-> "none", total_projects |-> 0,
                 calls |-> admin.calls + 1]
    /\ runs' = [runs EXCEPT ![Admin] = StartRun]
    /\ before_refresh' = [clean |-> TRUE, globals |-> globals]
    /\ UNCHANGED <<globals, callers, last_return, published>>
    /\ UNCHANGED http

UpdateCacheReturn ==
    /\ admin.pc = "running"
    /\ runs[Admin].pc = "done"
    /\ admin' = [admin EXCEPT !.pc = "idle",
                              !.result = update_cache_status(runs[Admin].outcome),
                              !.total_projects = Len(RESIDENTIAL_PROJECTS_CACHE)]
    /\ before_refresh' = None
    /\ UNCHANGED <<globals, callers, last_return, runs, published>>
    /\ UNCHANGED http

\* the steps of thread r inside init_cache() of cache_service.py
RunStep(r) ==
    \/ FetchResidentialProjects(r)
    \/ FetchCommercialProjects(r)
    \/ FetchResidentialProperties(r)
    \/ FetchCommercialProperties(r)
    \/ FetchLocalities(r)
    \/ StoreResidentialProjects(r)
    \/ StoreCommercialProjects(r)
    \/ StoreResidentialProperties(r)
    \/ StoreCommercialProperties(r)
    \/ StoreLocalities(r)
    \/ BuildCommercialProjectsIndex(r)
    \/ BuildResidentialProjectsIndex(r)
    \/ SetInitialized(r)
    \/ Except(r)

\* the steps of request thread c inside ensure_cache_initialized()
CallerStep(c) ==
    /\ \/ EnsureCheckInitialized(c)
       \/ EnsureCheckStarted(c)
       \/ EnsureSetStarted(c)
       \/ EnsureStartThread(c)
       \/ EnsureReturn(c)
    /\ UNCHANGED http

\* The program as it is served: no route calls update_cache(), so the
\* threads are the request threads, which call ensure_cache_initialized()
\* again and again, and the background runs they start.
Next ==
    \/ \E c \in Callers : CallerStep(c)
    \/ \E c \in Callers : RunStep(c)

Spec == Init /\ [][Next]_vars

\* one request thread and the background run it starts
ServedNext ==
    \/ \E c \in Requesters : CallerStep(c)
    \/ \E c \in Requesters : RunStep(c)

ServedSpec == Init /\ [][ServedNext]_vars

\* The program with an administrative thread that calls update_cache()
\* while request threads call ensure_cache_initialized().
RefreshNext ==
    \/ \E c \in Requesters : CallerStep(c)
    \/ \E r \in Requesters \cup {Admin} : RunStep(r)
    \/ UpdateCacheCall
    \/ UpdateCacheReturn

RefreshSpec == Init /\ [][RefreshNext]_vars

\* the names of the seven structures of the cache
AllStructures ==
    {"RESIDENTIAL_PROJECTS_CACHE", "COMMERCIAL_PROJECTS_CACHE",
     "RESIDENTIAL_PROPERTIES_CACHE", "COMMERCIAL_PROPERTIES_CACHE",
     "LOCALITIES_CACHE", "COMMERCIAL_PROJECTS_NAME_INDEX",
     "RESIDENTIAL_PROJECTS_NAME_INDEX"}

(***************************************************************************)
(* The routes.  Every handler of app/routes starts with the readiness      *)
(* guard                                                                   *)
(*     if not ensure_cache_initialized(): return ..."initializing"..., 202 *)
(* and handles the request only after it.  The search handlers of the      *)
(* single-module variant src/app.py (lines 713-835), which keeps the same  *)
(* cache (lines 282-372), have no guard.                                   *)
(***************************************************************************)
GuardedRoutes ==
    {"status", "get_localities",
     "residential_projects", "commercial_projects",
     "residential_property_by_id", "commercial_property_by_id",
     "residential_properties", "commercial_properties",
     "search_residential_projects", "search_commercial_projects"}

\* search.py lines 4-10: "from app.services.cache_service import ..." binds
\* the names of search.py, when the application is imported, to the list and
\* dict objects the globals of cache_service.py hold then.  init_cache() and
\* the index builders bind the globals to new objects and never change
\* these, so the names of search.py stay bound to an empty index and an
\* empty list.
ImportedIndex == EmptyIndex
ImportedCache == <<>>
ImportedDict == PyDict(<<>>, ImportedIndex)

\* the value a global of cache_service.py holds
GlobalValue(name) ==
    CASE name = "RESIDENTIAL_PROJECTS_CACHE" -> RESIDENTIAL_PROJECTS_CACHE
      [] name = "COMMERCIAL_PROJECTS_CACHE" -> COMMERCIAL_PROJECTS_CACHE
      [] name = "RESIDENTIAL_PROPERTIES_CACHE" -> RESIDENTIAL_PROPERTIES_CACHE
      [] name = "COMMERCIAL_PROPERTIES_CACHE" -> COMMERCIAL_PROPERTIES_CACHE
      [] name = "LOCALITIES_CACHE" -> LOCALITIES_CACHE
      [] name = "COMMERCIAL_PROJECTS_NAME_INDEX" -> COMMERCIAL_PROJECTS_NAME_INDEX
      [] name = "RESIDENTIAL_PROJECTS_NAME_INDEX" -> RESIDENTIAL_PROJECTS_NAME_INDEX
      [] name = "CACHE_INITIALIZED" -> CACHE_INITIALIZED

\* the dict an index global is bound to, with its keys in insertion order
IndexDict(name) == PyDict(dicts[name].keys, GlobalValue(name))

\* cache_service.py line 193: the globals get_cache_size() loads, in order
get_cache_size ==
    <<"RESIDENTIAL_PROPERTIES_CACHE", "COMMERCIAL_PROPERTIES_CACHE">>

\* cache_service.py lines 199-205: the globals debug_cache_status() loads
debug_cache_status ==
    <<"CACHE_INITIALIZED", "RESIDENTIAL_PROJECTS_CACHE",
      "COMMERCIAL_PROJECTS_CACHE", "RESIDENTIAL_PROPERTIES_CACHE",
      "COMMERCIAL_PROPERTIES_CACHE">>

\* the collection a listing or a lookup reads
CollectionOf(route) ==
    CASE route \in {"residential_projects", "search_residential_projects"} ->
             "RESIDENTIAL_PROJECTS_CACHE"
      [] route \in {"commercial_projects", "search_commercial_projects"} ->
             "COMMERCIAL_PROJECTS_CACHE"
      [] route \in {"residential_property_by_id", "residential_properties"} ->
             "RESIDENTIAL_PROPERTIES_CACHE"
      [] route \in {"commercial_property_by_id", "commercial_properties"} ->
             "COMMERCIAL_PROPERTIES_CACHE"
      [] route = "get_localities" -> "LOCALITIES_CACHE"

\* the index a search route scans
IndexOf(route) ==
    IF route = "search_residential_projects"
    THEN "RESIDENTIAL_PROJECTS_NAME_INDEX"
    ELSE "COMMERCIAL_PROJECTS_NAME_INDEX"

ProjectListings == {"residential_projects", "commercial_projects"}
SearchRoutes == {"search_residential_projects", "search_commercial_projects"}

\* The globals of cache_service.py the handler of route loads after its
\* guard, in order, one load each.  A thread that assigns one of them may
\* run between two loads.
\*   status        health.py lines 21 and 24
\*   listings of the projects   projects.py line 39 / 127, and again at
\*                 line 60 / 148 for a viewport request (the list of the
\*                 second load is the one filtered); int(limit) and
\*                 int(offset) of lines 35-36 raise before any load
\*   the others    one load: projects.py line 204, properties.py lines 30,
\*                 62, 100, 221
\*   search        none: the names search.py reads are its own
Loads(route, args) ==
    CASE route = "status" -> get_cache_size \o debug_cache_status
      [] route \in ProjectListings ->
             IF \/ IsRaised(IntArg(args, "limit", 12))
                \/ IsRaised(IntArg(args, "offset", 0))
             THEN <<>>
             ELSE IF has_viewport(args)
             THEN <<CollectionOf(route), CollectionOf(route)>>
             ELSE <<CollectionOf(route)>>
      [] route \in SearchRoutes -> <<>>
      [] OTHER -> <<CollectionOf(route)>>

\* what the handler keeps of a load: status takes len() of a collection at
\* once, the others keep the list, which no thread changes in place
Observed(route, name) ==
    IF route = "status" /\ name # "CACHE_INITIALIZED"
    THEN Len(GlobalValue(name))
    ELSE GlobalValue(name)

\* what the loads give when no thread assigns a global between them
LoadedAtOnce(route, args) ==
    [i \in DOMAIN Loads(route, args) |-> Observed(route, Loads(route, args)[i])]

\* health.py lines 20-30, on the two sizes get_cache_size() took and the
\* flag and the four sizes debug_cache_status() took
status_route(loaded) ==
    Response(200,
        [status |-> "healthy",
         cache_size |-> <<loaded[1], loaded[2]>>,
         debug_info |->
             [k \in {"CACHE_INITIALIZED", "RESIDENTIAL_PROJECTS_CACHE size",
                     "COMMERCIAL_PROJECTS_CACHE size",
                     "RESIDENTIAL_PROPERTIES_CACHE size",
                     "COMMERCIAL_PROPERTIES_CACHE size"} |->
                 CASE k = "CACHE_INITIALIZED" -> loaded[3]
                   [] k = "RESIDENTIAL_PROJECTS_CACHE size" -> loaded[4]
                   [] k = "COMMERCIAL_PROJECTS_CACHE size" -> loaded[5]
                   [] k = "RESIDENTIAL_PROPERTIES_CACHE size" -> loaded[6]
                   [] k = "COMMERCIAL_PROPERTIES_CACHE size" -> loaded[7]]])

UpperChar(c) ==
    CASE c = "k" -> "K"
      [] c = "a" -> "A"
      [] c = "b" -> "B"
      [] OTHER -> c

IsLetter(c) == c \in {"A", "B", "K", "a", "b", "k"}

\* str.title() on strings whose letters are a, b and k: a letter after a
\* letter is lowercased, any other letter uppercased
Title(s) ==
    [i \in DOMAIN s |->
        IF i > 1 /\ IsLetter(s[i - 1]) THEN LowerChar(s[i]) ELSE UpperChar(s[i])]

\* sorted() on a list of strings
RECURSIVE Sorted(_)
Sorted(xs) ==
    IF xs = <<>> THEN <<>>
    ELSE LET least == CHOOSE i \in DOMAIN xs :
                         \A j \in DOMAIN xs : ~StrLess(xs[j], xs[i])
         IN  <<xs[least]>> \o
             Sorted(SubSeq(xs, 1, least - 1) \o SubSeq(xs, least + 1, Len(xs)))

\* projects.py lines 204-219 on the list line 204 loaded: loc.get on None
\* raises, and so does strip on a name that is truthy and no string
localities_route(localities_cache) ==
    IF \E i \in DOMAIN localities_cache :
           \/ localities_cache[i] = None
           \/ /\ Truthy(localities_cache[i].name)
              /\ ~IsStr(localities_cache[i].name)
    THEN Error(500, "Failed to fetch localities")
    ELSE LET named == SelectSeq(localities_cache, LAMBDA loc : Truthy(loc.name))
         IN  Response(200,
                 [status |-> "success",
                  localities |->
                      Sorted([i \in DOMAIN named |->
                                 Title(Strip(named[i].name.str))])])

\* the list the last load of a handler gave, [] for a handler that answers
\* before its first load
LastLoaded(loaded) == IF loaded = <<>> THEN <<>> ELSE loaded[Len(loaded)]

\* the answer of the handler of route, after its guard, on the query string
\* args and on what its loads gave
Answered(route, args, loaded) ==
    CASE route = "status" -> status_route(loaded)
      [] route = "get_localities" -> localities_route(LastLoaded(loaded))
      [] route \in ProjectListings -> projects_route(args, LastLoaded(loaded))
      [] route \in {"residential_property_by_id", "commercial_property_by_id"} ->
             property_by_id_route(args, LastLoaded(loaded))
      [] route = "residential_properties" ->
             residential_properties_route(args, LastLoaded(loaded))
      [] route = "commercial_properties" ->
             commercial_properties_route(args, LastLoaded(loaded))
      [] route \in SearchRoutes ->
             search_projects(args, ImportedDict, ImportedCache)

\* the handler of route after its guard when no thread assigns a global
\* while it runs
Handle(route, args) == Answered(route, args, LoadedAtOnce(route, args))

\* whether a search handler reaches its scan of the index (line 37 or 106)
search_scans(args) ==
    /\ ~IsRaised(IntArg(args, "limit", 12))
    /\ ~IsRaised(IntArg(args, "offset", 0))
    /\ search_term_of(args) # <<>>

\* the structures a search handler reads on the index its name is bound
\* to: the index when it scans (line 37 / 106), and the collection only
\* when a position matches (line 42 / 111 subscripts it once per position)
search_reads(route, args, NAME_INDEX) ==
    IF ~search_scans(args) THEN {}
    ELSE IF matching_indices(search_term_of(args), NAME_INDEX).fill = 0
    THEN {IndexOf(route)}
    ELSE {IndexOf(route), CollectionOf(route)}

\* history: the collections and indices the handler of app/routes reads
ReadsOf(route, args) ==
    IF route \in SearchRoutes
    THEN search_reads(route, args, ImportedDict)
    ELSE {Loads(route, args)[i] : i \in DOMAIN Loads(route, args)}
             \ {"CACHE_INITIALIZED"}

\* a query string: the text given for each of the named parameters
Args1(name, text) == [k \in {name} |-> text]
NoArgs == [k \in {} |-> <<>>]

\* the query strings the requests of the lifecycle model carry
RouteArgs(route) ==
    IF route \in SearchRoutes
    THEN {NoArgs, Args1("q", <<" ">>), Args1("q", <<"K">>),
          Args1("limit", <<"x">>)}
    ELSE IF route \in {"residential_property_by_id", "commercial_property_by_id"}
    THEN {Args1("propertyId", "pp1"), Args1("propertyId", "cq1")}
    ELSE IF route \in {"residential_properties", "commercial_properties"}
    THEN {NoArgs, Args1("priceMin", <<"1">>), Args1("priceMax", <<"x">>)}
    ELSE {NoArgs}

Initializing ==
    Response(202, [status |-> "initializing",
                   message |-> "Data is being loaded. Please try again in a few minutes."])

\* properties.py lines 90-97 and 211-218: the listings of the properties
\* add an empty page to it
InitializingListing ==
    Response(202, [status |-> "initializing",
                   message |-> "Data is being loaded. Please try again in a few minutes.",
                   properties |-> <<>>,
                   total |-> 0])

PropertyListings == {"residential_properties", "commercial_properties"}

\* the answer of the route when its guard does not let it go on
initializing_of(route) ==
    IF route \in PropertyListings THEN InitializingListing ELSE Initializing

\* what a route answered, with the value of CACHE_INITIALIZED when it did
Answer(route, args, ready, reads, answer) ==
    [route |-> route, args |-> args, ready |-> ready, reads |-> reads,
     http |-> answer]

\* request thread c inside the handler of route, past its guard, with what
\* its loads gave so far
InHandler(route, args, loaded) ==
    [pc |-> "handler", route |-> route, args |-> args, loaded |-> loaded]

\* "if not ensure_cache_initialized()": whether the handler goes on
guard(ensured) == ensured = "True"

\* The guard of a route on the step of ensure_cache_initialized() taken:
\* when the call returns in this step, the route answers 202 at once or goes
\* on to handle the request.
RouteGuard(c, route, args) ==
    /\ IF callers'[c].pc # "idle"
       THEN UNCHANGED <<serving, request, response>>
       ELSE IF guard(last_return'.value)
       THEN /\ serving' = [serving EXCEPT ![c] = InHandler(route, args, <<>>)]
            /\ UNCHANGED <<request, response>>
       ELSE /\ request' = [route |-> route, args |-> args]
            /\ response' = Answer(route, args, CACHE_INITIALIZED, {},
                                  initializing_of(route))
            /\ UNCHANGED serving
    /\ UNCHANGED <<dicts, previous>>

\* A step of request thread c inside the ensure_cache_initialized() its
\* route called, and the guard.
RouteEnsure(c, route, args) ==
    /\ serving[c] = Outside
    /\ \/ EnsureCheckInitialized(c)
       \/ EnsureCheckStarted(c)
       \/ EnsureSetStarted(c)
       \/ EnsureStartThread(c)
       \/ EnsureReturn(c)
    /\ RouteGuard(c, route, args)

\* what thread c has loaded after the next load of its handler
LoadedNext(c, route, args) ==
    IF Len(serving[c].loaded) < Len(Loads(route, args))
    THEN Append(serving[c].loaded,
                Observed(route, Loads(route, args)[Len(serving[c].loaded) + 1]))
    ELSE serving[c].loaded

Serve_MutantFiltersInPlace(c, route, args) ==
    /\ serving[c].pc = "handler"
    /\ serving[c].route = route
    /\ serving[c].args = args
    /\ IF Len(LoadedNext(c, route, args)) < Len(Loads(route, args))
       THEN /\ serving' = [serving EXCEPT ![c].loaded = LoadedNext(c, route, args)]
            /\ UNCHANGED <<request, response>>
       ELSE /\ serving' = [serving EXCEPT ![c] = Outside]
            /\ request' = [route |-> route, args |-> args]
            /\ response' = Answer(route, args, CACHE_INITIALIZED,
                                  ReadsOf(route, args),
                                  Answered(route, args, LoadedNext(c, route, args)))
    /\ RESIDENTIAL_PROPERTIES_CACHE' =
           IF route = "residential_properties"
           THEN residential_filtered(args, RESIDENTIAL_PROPERTIES_CACHE,
                                     FloatArg(args, "priceMin"),
                                     FloatArg(args, "priceMax"))
           ELSE RESIDENTIAL_PROPERTIES_CACHE
    /\ UNCHANGED <<RESIDENTIAL_PROJECTS_CACHE, COMMERCIAL_PROJECTS_CACHE,
                   COMMERCIAL_PROPERTIES_CACHE, LOCALITIES_CACHE, indices,
                   flags, callers, last_return, runs, admin, before_refresh,
                   published, dicts, previous>>

\* The handler of the route, after the guard: its next load and, with the
\* last one (or with none to make), its answer.
Serve(c, route, args) ==
    /\ serving[c].pc = "handler"
    /\ serving[c].route = route
    /\ serving[c].args = args
    /\ IF Len(LoadedNext(c, route, args)) < Len(Loads(route, args))
       THEN /\ serving' = [serving EXCEPT ![c].loaded = LoadedNext(c, route, args)]
            /\ UNCHANGED <<request, response>>
       ELSE /\ serving' = [serving EXCEPT ![c] = Outside]
            /\ request' = [route |-> route, args |-> args]
            /\ response' = Answer(route, args, CACHE_INITIALIZED,
                                  ReadsOf(route, args),
                                  Answered(route, args, LoadedNext(c, route, args)))
    /\ UNCHANGED <<globals, callers, last_return, runs, admin, before_refresh,
                   published, dicts, previous>>

\* The package as it is served: request threads in the routes of
\* app/routes and the background runs they start.
RouteNext ==
    \/ \E c \in Requesters, route \in GuardedRoutes :
           \E args \in RouteArgs(route) : RouteEnsure(c, route, args)
    \/ \E c \in Requesters, route \in GuardedRoutes :
           \E args \in RouteArgs(route) : Serve(c, route, args)
    \/ \E c \in Requesters : RunStep(c)

RouteSpec == Init /\ [][RouteNext]_vars

\* The status route under interference: one request thread in the handler
\* of /status while the other thread calls ensure_cache_initialized(), so
\* that a second run can still be writing the collections between the
\* loads of get_cache_size and debug_cache_status.
StatusNext ==
    \/ \E c \in Requesters, args \in RouteArgs("status") :
           RouteEnsure(c, "status", args)
    \/ \E c \in Requesters, args \in RouteArgs("status") :
           Serve(c, "status", args)
    \/ \E c \in Callers \ Requesters : CallerStep(c)
    \/ \E c \in Callers : RunStep(c)

StatusSpec == Init /\ [][StatusNext]_vars

\* A /status answer read across a write: the size get_cache_size returned
\* for the residential properties differs from the size debug_cache_status
\* reports for the same collection (reachable under StatusSpec).
TornStatusAnswer ==
    /\ request # None
    /\ request.route = "status"
    /\ response.http.status = 200
    /\ response.http.body.cache_size[1]
           # response.http.body.debug_info["RESIDENTIAL_PROPERTIES_CACHE size"]

(***************************************************************************)
(* The single-module variant src/app.py.  It keeps the same cache under    *)
(* the same names (lines 282-372), its init_cache() has four fetches, and  *)
(* its search handlers (lines 713-835) have no guard and read the index    *)
(* and the collection globals of the module itself, statement by           *)
(* statement, while a population run may be writing them.                  *)
(***************************************************************************)
\* src/app.py line 361: the thread runs the init_cache() of src/app.py
LegacyEnsureStartThread(c) ==
    /\ callers[c].pc = "start_thread"
    /\ runs' = [runs EXCEPT ![c] = LegacyStartRun]
    /\ callers' = [callers EXCEPT ![c].pc = "return"]
    /\ UNCHANGED <<globals, admin, last_return, before_refresh, published>>

\* the steps of thread r inside init_cache() of src/app.py
LegacyRunStep(r) ==
    \/ FetchResidentialProjects(r)
    \/ FetchCommercialProjects(r)
    \/ FetchResidentialProperties(r)
    \/ FetchLocalities(r)
    \/ StoreResidentialProjects(r)
    \/ StoreCommercialProjects(r)
    \/ StoreResidentialProperties(r)
    \/ StoreLocalities(r)
    \/ BuildCommercialProjectsIndex(r)
    \/ BuildResidentialProjectsIndex(r)
    \/ PrintInitialized(r)
    \/ SetInitialized(r)
    \/ Except(r)

\* the routes of src/app.py behind the guard (lines 380, 399, 551, 638, 968
\* and 1001)
LegacyGuardedRoutes ==
    {"status", "get_localities", "commercial_projects", "residential_projects",
     "residential_property_by_id", "residential_properties"}

\* the query strings the requests to src/app.py carry
LegacyRouteArgs(route) ==
    IF route \in ProjectListings
    THEN {NoArgs, Args1("offset", <<"1">>), Args1("limit", <<"x">>)}
    ELSE RouteArgs(route)

\* The number of loads of its collection global the handler of route
\* makes in all, after its guard, on what its loads gave so far.
\*   status        none: lines 376-391 read no global after the guard
\*   listings of the projects   int(limit) and int(offset) of lines
\*                 560-561 / 647-648 raise before any load; a viewport
\*                 request loads once, at line 582 / 669; the others load at
\*                 line 593 / 680 for the overflow test and then at line
\*                 597 / 684, or at lines 606, 607 and 610 / 693, 694 and 697
\*   residential_properties   float() of lines 1013-1014 raises before the
\*                 load of line 1031
\*   the others    one load: line 407, line 976
legacy_loads(route, args, loaded) ==
    CASE route = "status" -> 0
      [] route \in ProjectListings ->
             IF \/ IsRaised(IntArg(args, "limit", 12))
                \/ IsRaised(IntArg(args, "offset", 0))
             THEN 0
             ELSE IF has_viewport(args) \/ loaded = <<>> THEN 1
             ELSE IF Max(0, IntArg(args, "offset", 0).returned) >= Len(loaded[1])
             THEN 2
             ELSE 4
      [] route = "residential_properties" ->
             IF \/ IsRaised(FloatArg(args, "priceMin"))
                \/ IsRaised(FloatArg(args, "priceMax"))
             THEN 0
             ELSE 1
      [] OTHER -> 1

\* Lines 588-611 / 675-698, "Regular pagination without viewport", on the
\* lists its loads of the global gave: the first for the overflow test;
\* then the second for the total of the overflow answer, or the second for
\* the slice, the third for the total and the fourth for has_more.
legacy_regular_page(loaded, limit, offset) ==
    IF offset >= Len(loaded[1])
    THEN [status |-> "success", items |-> <<>>, total |-> Len(loaded[2]),
          limit |-> limit, offset |-> offset, has_more |-> FALSE,
          message |-> "Offset exceeds available data"]
    ELSE [status |-> "success",
          items |-> Slice(loaded[2], offset, offset + limit),
          total |-> Len(loaded[3]),
          limit |-> limit, offset |-> offset,
          has_more |-> offset + limit < Len(loaded[4]),
          message |-> ""]

\* get_commercial_projects / get_residential_projects of src/app.py on the
\* outcomes of int(limit) and int(offset) and on what the loads gave
legacy_projects_answer(args, loaded, limit, offset) ==
    IF IsRaised(limit) \/ IsRaised(offset) \/ has_viewport(args)
    THEN projects_answer(args, LastLoaded(loaded), limit, offset)
    ELSE Response(200, legacy_regular_page(loaded, Max(1, limit.returned),
                                           Max(0, offset.returned)))

legacy_projects_route(args, loaded) ==
    legacy_projects_answer(args, loaded, IntArg(args, "limit", 12),
                           IntArg(args, "offset", 0))

\* What the handler of a guarded route of src/app.py returns, after its
\* guard, on what its loads gave.  status() ends without a return
\* statement: it returns None, which is no answer.
legacy_answered(route, args, loaded) ==
    CASE route = "status" -> None
      [] route \in ProjectListings -> legacy_projects_route(args, loaded)
      [] OTHER -> Answered(route, args, loaded)

\* what thread c has loaded after the next load of its handler
legacy_loaded_next(c, route, args) ==
    IF Len(serving[c].loaded) < legacy_loads(route, args, serving[c].loaded)
    THEN Append(serving[c].loaded, GlobalValue(CollectionOf(route)))
    ELSE serving[c].loaded

\* A handler of a guarded route of src/app.py, after the guard: its next
\* load of the global and, with the last one (or with none to make), what
\* it returns.
LegacyServe(c, route, args) ==
    /\ serving[c].pc = "handler"
    /\ serving[c].route = route
    /\ serving[c].args = args
    /\ IF Len(legacy_loaded_next(c, route, args))
              < legacy_loads(route, args, legacy_loaded_next(c, route, args))
       THEN /\ serving' =
                   [serving EXCEPT ![c].loaded = legacy_loaded_next(c, route, args)]
            /\ UNCHANGED <<request, response>>
       ELSE /\ serving' = [serving EXCEPT ![c] = Outside]
            /\ request' = [route |-> route, args |-> args]
            /\ response' =
                   Answer(route, args, CACHE_INITIALIZED,
                          IF legacy_loaded_next(c, route, args) = <<>> THEN {}
                          ELSE {CollectionOf(route)},
                          legacy_answered(route, args,
                                          legacy_loaded_next(c, route, args)))
    /\ UNCHANGED <<globals, callers, last_return, runs, admin, before_refresh,
                   published, dicts, previous>>

LegacyRouteEnsure(c, route, args) ==
    /\ serving[c] = Outside
    /\ \/ EnsureCheckInitialized(c)
       \/ EnsureCheckStarted(c)
       \/ EnsureSetStarted(c)
       \/ LegacyEnsureStartThread(c)
       \/ EnsureReturn(c)
    /\ RouteGuard(c, route, args)

\* The dict object number id an index global was bound to, as it is now:
\* the one bound to the global, which the builders change, or one that was
\* left behind.
DictObject(what, id) ==
    IF id = Len(dicts[what].left) + 1
    THEN PyDict(dicts[what].keys, GlobalValue(what))
    ELSE dicts[what].left[id]

\* the handler has answered
Answering(answer) == [handler |-> Outside, answer |-> answer]
\* the handler goes on
Continuing(handler) == [handler |-> handler, answer |-> None]

\* Lines 718-730 / 781-793: the parameters are read, and a handler that
\* goes on loads the index global and makes the iterator of the dict, which
\* holds the dict and its size.
legacy_search_enter(route, args) ==
    IF ~search_scans(args)
    THEN Answering(search_projects(args, PyDict(<<>>, EmptyIndex), <<>>))
    ELSE Continuing(
             [pc |-> "next", route |-> route, args |-> args,
              object |-> Len(dicts[IndexOf(route)].left) + 1,
              used |-> Len(dicts[IndexOf(route)].keys),
              pos |-> 0, key |-> <<>>, matched |-> set_new, items |-> <<>>])

\* One statement of the handler in state h.
\*   "next"     line 730 / 793   the iterator gives the next key of its
\*                               dict in insertion order, or raises
\*                               RuntimeError when the size of its dict
\*                               changed, or ends the loop
\*   "lookup"   line 732 / 795   INDEX[name_key] on the dict bound to the
\*                               global then: KeyError without the key
\*   "collect"  line 735 / 798   CACHE[idx] on the list bound to the global
\*                               then, a load for every position, in the
\*                               iteration order of the set:
\*                               IndexError beyond its end; after the last,
\*                               the sort of line 736 / 799, which raises on
\*                               None and on a name that is no string
\* Every exception is answered by lines 770-775 / 830-835.
legacy_search_line(h) ==
    LET term == search_term_of(h.args)
        limit == IntArg(h.args, "limit", 12).returned
        offset == IntArg(h.args, "offset", 0).returned
        failed == Answering(Error(500, "Internal server error"))
        page(items) ==
            Answering(Response(200, regular_page(items, search_limit(limit),
                                                 Max(0, offset))))
    IN  CASE h.pc = "next" ->
                 LET dict == DictObject(IndexOf(h.route), h.object)
                 IN  IF Len(dict.keys) # h.used THEN failed
                     ELSE IF h.pos = h.used
                     THEN IF h.matched.fill = 0 THEN page(<<>>)
                          ELSE Continuing([h EXCEPT !.pc = "collect"])
                     ELSE IF StartsWith(dict.keys[h.pos + 1], term)
                     THEN Continuing([h EXCEPT !.pc = "lookup",
                                               !.key = dict.keys[h.pos + 1],
                                               !.pos = @ + 1])
                     ELSE Continuing([h EXCEPT !.pos = @ + 1])
          [] h.pc = "lookup" ->
                 LET index == GlobalValue(IndexOf(h.route))
                 IN  IF h.key \notin DOMAIN index THEN failed
                     ELSE Continuing(
                              [h EXCEPT !.pc = "next",
                                        !.matched =
                                            set_update(@, index[h.key])])
          [] h.pc = "collect" ->
                 LET cache == GlobalValue(CollectionOf(h.route))
                     idx == set_iter(h.matched)[Len(h.items) + 1]
                     items == Append(h.items, cache[idx + 1])
                 IN  IF idx + 1 \notin DOMAIN cache THEN failed
                     ELSE IF Len(items) < h.matched.fill
                     THEN Continuing([h EXCEPT !.items = items])
                     ELSE IF \E i \in DOMAIN items :
                                 items[i] = None \/ ~IsStr(items[i].name)
                     THEN failed
                     ELSE page(sorted_by_name(items))

\* history: the structures the handler in state h has read
legacy_search_reads(h) ==
    IF h = Outside THEN {}
    ELSE IF h.pc = "collect" THEN {IndexOf(h.route), CollectionOf(h.route)}
    ELSE {IndexOf(h.route)}

\* search_residential_projects / search_commercial_projects of src/app.py:
\* a statement of request thread c in the handler, which has no guard
LegacySearch(c, route, args) ==
    /\ callers[c].pc = "idle"
    /\ serving[c].pc \in {"outside", "next", "lookup", "collect"}
    /\ serving[c] # Outside => serving[c].route = route /\ serving[c].args = args
    /\ LET line == IF serving[c] = Outside
                   THEN legacy_search_enter(route, args)
                   ELSE legacy_search_line(serving[c])
       IN  /\ serving' = [serving EXCEPT ![c] = line.handler]
           /\ IF line.answer = None
              THEN UNCHANGED <<request, response>>
              ELSE /\ request' = [route |-> route, args |-> args]
                   /\ response' = Answer(route, args, CACHE_INITIALIZED,
                                         legacy_search_reads(serving[c]),
                                         line.answer)
    /\ UNCHANGED <<globals, callers, last_return, runs, admin, before_refresh,
                   published, dicts, previous>>

\* The single-module variant src/app.py as it is served: request threads
\* in its guarded routes and in its search routes, and the background runs
\* they start.
LegacyRouteNext ==
    \/ \E c \in Requesters, route \in LegacyGuardedRoutes :
           \E args \in LegacyRouteArgs(route) :
               LegacyRouteEnsure(c, route, args)
    \/ \E c \in Requesters, route \in LegacyGuardedRoutes :
           \E args \in LegacyRouteArgs(route) : LegacyServe(c, route, args)
    \/ \E c \in Requesters : LegacyRunStep(c)
    \/ \E c \in Requesters, route \in SearchRoutes :
           \E args \in RouteArgs(route) : LegacySearch(c, route, args)

LegacyRouteSpec == Init /\ [][LegacyRouteNext]_vars

(***************************************************************************)
(* The query engine on a READY cache that no thread changes: the routes,   *)
(* and the functions of location_utils.py and pagination_utils.py called   *)
(* on the collections of the cache.                                        *)
(***************************************************************************)
\* the number of entities of the long collection, above twice the limit of
\* a viewport page
BigLen == 1001

\* raw records: a residential project (its coordinate column is
\* "coordinates"), a commercial project ("Coordinates") and a property
ResidentialListing(id, name, coordinates) ==
    Rec(id, [k \in {"Project Name", "coordinates"} |->
                IF k = "Project Name" THEN Str(name) ELSE Str(coordinates)])
CommercialListing(id, name, coordinates) ==
    Rec(id, [k \in {"Project Name", "Coordinates"} |->
                IF k = "Project Name" THEN Str(name) ELSE Str(coordinates)])
PropertyListing(id, name, coordinates) ==
    Rec(id, [k \in {"Property Name", "Property Coordinates"} |->
                IF k = "Property Name" THEN Str(name) ELSE Str(coordinates)])
LocalityRecord(id, name) == Rec(id, [k \in {"Name"} |-> Str(name)])

\* a raw record of a property with the columns the attribute filters read;
\* the values are Python values
OfferedProperty(id, price, bhk, locality, transaction_type, property_type) ==
    Rec(id, [k \in {"Price", "BHK", "Name (from Localities)",
                    "Transaction Type", "Property Type"} |->
                CASE k = "Price" -> price
                  [] k = "BHK" -> bhk
                  [] k = "Name (from Localities)" -> locality
                  [] k = "Transaction Type" -> transaction_type
                  [] OTHER -> property_type])

\* texts of the offered properties
Sanand == Str(<<"S", "a", "n", "a", "n", "d">>)
Bopal == Str(<<"B", "o", "p", "a", "l">>)
BlankBopal == Str(<<" ", "B", "o", "p", "a", "l">>)
Bhk3 == Str(<<"3", " ", "B", "H", "K">>)
Bhk2 == Str(<<"2", " ", "B", "H", "K">>)
Bhk13 == Str(<<"1", "3", " ", "B", "H", "K">>)
Buy == Str(<<"b", "u", "y">>)
BuyCapital == Str(<<"B", "u", "y">>)
Shop == Str(<<"S", "h", "o", "p">>)
Land == Str(<<"L", "a", "n", "d">>)

\* prices in and around the range 100000..200000: text with thousands
\* separators, a number at the lower bound, text with the currency glyph at
\* the upper bound, text just outside either bound, text that is no number
\* and the text "nan"
OfferedResidential ==
    << OfferedProperty("o1", Str(<<"1", ",", "5", "0", ",", "0", "0", "0">>),
                       Bhk3, List(<<Sanand, Bopal>>), Buy, Shop),
       OfferedProperty("o2", Num(100000), Bhk2, Bopal, BuyCapital, Land),
       OfferedProperty("o3", Str(<<"₹", " ", "2", ",", "0", "0", ",", "0", "0", "0">>),
                       Bhk13, List(<<BlankBopal>>), Buy, Land),
       OfferedProperty("o4", Str(<<"n", "a", "n">>),
                       Bhk3, List(<<Sanand>>), Buy, Shop),
       OfferedProperty("o5", Str(<<"2", ",", "0", "0", ",", "0", "0", "1">>),
                       Bhk3, Bopal, Buy, Shop),
       OfferedProperty("o6", Str(<<"9", "9", "9", "9", "9", ".", "5">>),
                       Bhk2, List(<<Bopal, Sanand>>), Buy, Land),
       OfferedProperty("o7", Str(<<"a", "b">>),
                       Bhk3, List(<<Bopal>>), Buy, Shop) >>

OfferedCommercial ==
    << OfferedProperty("d1", Str(<<"1", ",", "5", "0", ",", "0", "0", "0">>),
                       EmptyStr, List(<<Sanand, Bopal>>), Buy, Shop),
       OfferedProperty("d2", Str(<<"n", "a", "n">>),
                       EmptyStr, Bopal, Buy, Land),
       OfferedProperty("d3", Num(200001), EmptyStr, Sanand, BuyCapital, Shop) >>

\* properties whose evaluation raises under some criterion (a price that
\* is a list, a bhk, a property type or a locality that is a number, a
\* locality list that holds a number), and an ordinary property after them
OddResidential ==
    << OfferedProperty("e1", List(<<>>), Bhk3, Bopal, Buy, Shop),
       OfferedProperty("e2", Num(150000), Num(3), Bopal, Buy, Shop),
       OfferedProperty("e3", Num(150000), Bhk3, Num(5), Buy, Shop),
       OfferedProperty("e4", Num(150000), Bhk3, List(<<Num(5), Bopal>>),
                       Buy, Shop),
       OfferedProperty("e5", Num(150000), Bhk3, Bopal, Buy, Num(1)),
       OfferedProperty("e6", Num(150000), Bhk3, Bopal, Buy, Shop) >>

OddCommercial ==
    << OfferedProperty("f1", List(<<>>), EmptyStr, Bopal, Buy, Shop),
       OfferedProperty("f2", Num(150000), EmptyStr, Num(5), Buy, Shop),
       OfferedProperty("f3", Num(150000), EmptyStr, Bopal, Buy, Shop) >>

\* what the five fetches of the run that populated the cache returned
QueryFeeds ==
    { \* every record well formed; coordinates in and out of range, blank,
      \* empty and unparseable; names sharing prefixes, out of order; two
      \* names equal once lowercased, at positions 4 and 8
      [records |->
           << ResidentialListing("r0", <<"A", "b">>, <<"1", ",", "2">>),
              ResidentialListing("r1", <<>>, <<>>),
              ResidentialListing("r2", <<"k", "a">>,
                                 <<" ", "3", " ", ",", " ", "4", " ">>),
              ResidentialListing("r3", <<"K", "a", "l", "b">>, <<"5", ",", "5">>),
              ResidentialListing("r4", <<"B">>, <<"9", "1", ",", "0">>),
              ResidentialListing("r5", <<"K", "a">>, <<"x">>),
              ResidentialListing("r6", <<"a">>,
                                 <<"-", "1", ".", "5", ",", "2">>),
              ResidentialListing("r7", <<"K", "a", "l", "a">>,
                                 <<"0", ",", "1", "8", "1">>),
              ResidentialListing("r8", <<"b">>, <<>>) >>,
       commercial_records |->
           << CommercialListing("c0", <<"K", "b">>, <<"2", ",", "2">>),
              CommercialListing("c1", <<>>, <<"5", ",", "5">>),
              CommercialListing("c2", <<"K", "a">>,
                                <<"1", ",", "2", ",", "3">>) >>,
       residential_inventory_records |->
           << PropertyListing("pp1", <<"A">>, <<"1", ",", "1">>),
              PropertyListing("pp2", <<"B">>, <<>>) >> \o OfferedResidential,
       commercial_inventory_records |->
           << PropertyListing("cq1", <<"K">>, <<"4", ",", "4">>) >>
               \o OfferedCommercial,
       localities_records |->
           << LocalityRecord("l0", <<"b", "a", "k">>),
              LocalityRecord("l1", <<" ", "A", "b">>),
              LocalityRecord("l2", <<>>) >>],
      \* a record without its fields in every list: a None in every
      \* collection
      [records |->
           << ResidentialListing("n0", <<"A", "b">>, <<"1", ",", "2">>),
              Malformed("n1"),
              ResidentialListing("n2", <<"K", "b">>, <<"3", ",", "4">>) >>,
       commercial_records |->
           << Malformed("m0"),
              CommercialListing("m1", <<"K", "b">>, <<"2", ",", "2">>) >>,
       residential_inventory_records |->
           << Malformed("q0"),
              PropertyListing("pp1", <<"A">>, <<"1", ",", "1">>) >>
               \o OddResidential,
       commercial_inventory_records |->
           << PropertyListing("cq1", <<"K">>, <<"4", ",", "4">>),
              Malformed("q1") >> \o OddCommercial,
       localities_records |->
           << LocalityRecord("l0", <<"a", "b">>) >>] }

\* a long residential-projects collection, every entity at the same place
BigCollection ==
    [i \in 1..BigLen |->
        format_residential_project(
            ResidentialListing(i, <<>>, <<"1", ",", "2">>))]

\* The cache after the background run of request thread 1 populated it
\* from the feeds, alone.
QueryInit ==
    \E feeds \in QueryFeeds :
        LET run == [NoRun("set_initialized", "none", TRUE) EXCEPT
                       !.records = feeds.records,
                       !.commercial_records = feeds.commercial_records,
                       !.residential_inventory_records =
                           feeds.residential_inventory_records,
                       !.commercial_inventory_records =
                           feeds.commercial_inventory_records,
                       !.localities_records = feeds.localities_records,
                       !.wrote = AllStructures]
            rp == Map(format_residential_project, feeds.records)
            cp == Map(format_commercial_project, feeds.commercial_records)
        IN  /\ RESIDENTIAL_PROJECTS_CACHE = rp
            /\ COMMERCIAL_PROJECTS_CACHE = cp
            /\ RESIDENTIAL_PROPERTIES_CACHE =
                   Map2(format_residential_property,
                        feeds.residential_inventory_records, rp)
            /\ COMMERCIAL_PROPERTIES_CACHE =
                   Map2(format_commercial_property,
                        feeds.commercial_inventory_records, cp)
            /\ LOCALITIES_CACHE = Map(format_locality, feeds.localities_records)
            /\ COMMERCIAL_PROJECTS_NAME_INDEX = build_projects_index(cp).index
            /\ RESIDENTIAL_PROJECTS_NAME_INDEX = build_projects_index(rp).index
            /\ CACHE_INITIALIZATION_STARTED = TRUE
            /\ CACHE_INITIALIZED = TRUE
            /\ callers = [c \in Callers |-> [pc |-> "idle", entryStarted |-> FALSE]]
            /\ last_return = [value |-> "False", entryStarted |-> FALSE]
            /\ runs = [r \in RunIds |->
                          IF r = 1 THEN NoRun("done", "ok", TRUE)
                          ELSE NoRun("idle", "none", FALSE)]
            /\ admin = [pc |-> "idle", result |-> "none", total_projects |-> 0,
                calls |-> 0]
            /\ before_refresh = None
            /\ published = {[wrote |-> AllStructures, output |-> OutputOf(run)]}
            /\ serving = [c \in Callers |-> Outside]
            /\ dicts =
                   [what \in IndexNames |->
                       [keys |-> IF what = "COMMERCIAL_PROJECTS_NAME_INDEX"
                                 THEN build_projects_index(cp).keys
                                 ELSE build_projects_index(rp).keys,
                        left |-> <<>>]]
            /\ request = None
            /\ response = None
            /\ previous = None

\* the text of a parameter that the query string does not carry
Absent == <<"absent">>

\* the query string that carries the parameters of choices that are given
Args(choices) ==
    [k \in {name \in DOMAIN choices : choices[name] # Absent} |-> choices[k]]

\* the four bounds, as text: valid viewports (the whole map, a box, a box
\* written with blanks and a fraction, a single point) and invalid ones
\* (min above max, latitude 95, longitude -200, a bound that is no number)
Viewport(minLat, maxLat, minLng, maxLng) ==
    [minLat |-> minLat, maxLat |-> maxLat, minLng |-> minLng, maxLng |-> maxLng]

ViewportTexts ==
    { Viewport(<<"-", "9", "0">>, <<"9", "0">>,
               <<"-", "1", "8", "0">>, <<"1", "8", "0">>),
      Viewport(<<"0">>, <<"3">>, <<"0">>, <<"4">>),
      Viewport(<<" ", "1">>, <<"5", ".", "5">>, <<"2">>, <<"+", "5">>),
      Viewport(<<"5">>, <<"5">>, <<"5">>, <<"5">>),
      Viewport(<<"1", "0">>, <<"5">>, <<"0">>, <<"1">>),
      Viewport(<<"0">>, <<"1">>, <<"5">>, <<"1">>),
      Viewport(<<"0">>, <<"9", "5">>, <<"0">>, <<"1">>),
      Viewport(<<"0">>, <<"1">>, <<"-", "2", "0", "0">>, <<"0">>),
      Viewport(<<"0">>, <<"1">>, <<"0">>, <<"x">>) }

Paginations ==
    [page : {0, 1, 2}, limit : {-1, 0, 1, 2, 3, 500, 501},
     offset : {-1, 0, 1, 2, 3}]

\* pages of the long collection: the limits at and above the clamp
BigPaginations ==
    [page : {1}, limit : {500, 501}, offset : {0}]

CacheCollections ==
    {RESIDENTIAL_PROJECTS_CACHE, COMMERCIAL_PROJECTS_CACHE,
     RESIDENTIAL_PROPERTIES_CACHE, COMMERCIAL_PROPERTIES_CACHE}

\* the query strings of the requests, per route
IntTexts == {Absent, <<"0">>, <<"1">>, <<"2">>, <<"3">>, <<"-", "1">>, <<"x">>}
TermTexts ==
    {Absent, <<>>, <<" ">>, <<"k">>, <<"K", "A">>, <<"k", "a", "l">>,
     <<" ", "K", "a", " ">>, <<"b">>, <<"z">>}
SearchLimitTexts == {Absent, <<"1">>, <<"2">>, <<"x">>, <<"1", "0", "1">>}
OffsetTexts == {Absent, <<"0">>, <<"1">>, <<"2">>}

\* the criteria of the listings of the properties, as text of the query
\* string
PriceMinTexts ==
    {Absent, <<"1", "0", "0", "0", "0", "0">>, <<"n", "a", "n">>, <<"x">>}
PriceMaxTexts == {Absent, <<"2", "0", "0", "0", "0", "0">>}
BhkTexts == {Absent, <<"3">>, <<"3", " ", "B", "H", "K">>,
             <<"2", ",", "1", "3">>}
TransactionTexts == {Absent, <<"b", "u", "y">>}
PropertyTypeTexts == {Absent, <<"S", "h", "o", "p">>}
LocalityTexts ==
    {Absent, <<"b", "o", "p", "a", "l">>,
     <<"s", "a", "n", "a", "n", "d", ",", "b", "o", "p", "a", "l">>,
     <<" ", "B", "o", "p", "a", "l", " ">>, <<"k", "a", "l", "o", "l">>}

\* the criteria of a call of an attribute filter, as Python values: what
\* the listings pass for the texts above, without the text "x" that is no
\* price
TextOrNone(text) == IF text = Absent THEN None ELSE Str(text)
ListOrNone(text) ==
    IF text = Absent THEN None ELSE ListArg(Args1("x", text), "x")
PriceBounds(texts) ==
    {FloatArg(Args([x |-> text]), "x").returned : text \in texts \ {<<"x">>}}
Criteria ==
    [price_min : PriceBounds(PriceMinTexts),
     price_max : PriceBounds(PriceMaxTexts),
     bhk : {ListOrNone(text) : text \in BhkTexts},
     transaction_type : {TextOrNone(text) : text \in TransactionTexts},
     propertyType : {ListOrNone(text) : text \in PropertyTypeTexts},
     locality : {ListOrNone(text) : text \in LocalityTexts}]

QueryArgs(route) ==
    IF route \in {"residential_projects", "commercial_projects"}
    THEN {Args([limit |-> l, offset |-> o]) : l \in IntTexts, o \in IntTexts}
         \cup
         {Args([limit |-> l, offset |-> o,
                minLat |-> v.minLat, maxLat |-> v.maxLat,
                minLng |-> v.minLng, maxLng |-> v.maxLng]) :
             l \in {Absent, <<"1">>, <<"2">>}, o \in {Absent, <<"0">>, <<"1">>},
             v \in ViewportTexts}
    ELSE IF route \in SearchRoutes
    THEN {Args([q |-> q, limit |-> l, offset |-> o]) :
             q \in TermTexts, l \in SearchLimitTexts, o \in OffsetTexts}
    ELSE IF route \in {"residential_property_by_id", "commercial_property_by_id"}
    THEN {NoArgs} \cup
         {Args1("propertyId", id) : id \in {"pp1", "pp2", "cq1", "q0", "zz"}}
    ELSE IF route \in PropertyListings
    THEN {Args([priceMin |-> lo, priceMax |-> hi, bhk |-> b,
                transactionType |-> t, propertyType |-> p, locality |-> l]) :
             lo \in PriceMinTexts, hi \in PriceMaxTexts, b \in BhkTexts,
             t \in TransactionTexts, p \in PropertyTypeTexts,
             l \in LocalityTexts}
         \cup
         {Args([locality |-> l, limit |-> n, offset |-> o,
                minLat |-> v.minLat, maxLat |-> v.maxLat,
                minLng |-> v.minLng, maxLng |-> v.maxLng]) :
             l \in {Absent, <<"b", "o", "p", "a", "l">>},
             n \in {Absent, <<"1">>, <<"x">>}, o \in {Absent, <<"1">>},
             v \in ViewportTexts \cup {[minLat |-> Absent, maxLat |-> Absent,
                                        minLng |-> Absent, maxLng |-> Absent]}}
    ELSE {NoArgs}

\* The server answers one request at a time.
\* a request to a route of app/routes: the guard passes, the handler runs
QueryRoute(route, args) ==
    /\ request = None
    /\ CACHE_INITIALIZED
    /\ request' = [op |-> "route", variant |-> "package",
                   route |-> route, args |-> args]
    /\ response' = Handle(route, args)
    /\ previous' = None
    /\ UNCHANGED <<globals, callers, last_return, runs, admin, before_refresh,
                   published, serving, dicts>>

\* a request to a search route of src/app.py
QueryLegacySearch(route, args) ==
    /\ request = None
    /\ request' = [op |-> "route", variant |-> "legacy",
                   route |-> route, args |-> args]
    /\ response' =
           IF route = "search_residential_projects"
           THEN search_projects(args, IndexDict("RESIDENTIAL_PROJECTS_NAME_INDEX"),
                                RESIDENTIAL_PROJECTS_CACHE)
           ELSE search_projects(args, IndexDict("COMMERCIAL_PROJECTS_NAME_INDEX"),
                                COMMERCIAL_PROJECTS_CACHE)
    /\ previous' = None
    /\ UNCHANGED <<globals, callers, last_return, runs, admin, before_refresh,
                   published, serving, dicts>>

\* a call of filter_projects_by_viewport on a viewport that was constructed
QueryFilter(projects, viewport_params) ==
    /\ request = None
    /\ ~IsRaised(viewport_of(viewport_params))
    /\ request' = [op |-> "filter_projects_by_viewport",
                   projects |-> projects,
                   viewport_params |-> viewport_params]
    /\ response' = filter_projects_by_viewport(
                       projects, viewport_of(viewport_params).returned)
    /\ previous' = None
    /\ UNCHANGED <<globals, callers, last_return, runs, admin, before_refresh,
                   published, serving, dicts>>

\* a call of filter_residential_properties or filter_commercial_properties
\* (named by op) on a collection of properties; on criteria that are text
\* or lists of text nothing leaves the loop, and the call returns its list
QueryAttributeFilter(op, properties, criteria) ==
    /\ request = None
    /\ request' = [op |-> op, properties |-> properties,
                   criteria |-> criteria]
    /\ response' =
           IF op = "filter_residential_properties"
           THEN Returned(filter_residential_properties(
                    properties, criteria.price_min, criteria.price_max,
                    criteria.bhk, criteria.transaction_type,
                    criteria.propertyType, criteria.locality))
           ELSE Returned(filter_commercial_properties(
                    properties, criteria.price_min, criteria.price_max,
                    criteria.transaction_type, criteria.propertyType,
                    criteria.locality))
    /\ previous' = None
    /\ UNCHANGED <<globals, callers, last_return, runs, admin, before_refresh,
                   published, serving, dicts>>

\* a call of get_projects_in_viewport / get_properties_in_viewport
QueryViewport(projects, viewport_params, pagination_params) ==
    /\ request = None
    /\ request' = [op |-> "get_projects_in_viewport",
                   projects |-> projects,
                   viewport_params |-> viewport_params,
                   pagination_params |-> pagination_params]
    /\ response' = get_projects_in_viewport(projects, viewport_params,
                                            pagination_params)
    /\ previous' = None
    /\ UNCHANGED <<globals, callers, last_return, runs, admin, before_refresh,
                   published, serving, dicts>>

\* The next page: after a request with offset 0 (or none) and limit N, the
\* same request with offset N and limit N.
NextPageRequest ==
    IF request.op = "get_projects_in_viewport"
    THEN [request EXCEPT !.pagination_params.offset =
                             request.pagination_params.limit]
    ELSE [request EXCEPT !.args =
             [k \in DOMAIN request.args \cup {"offset"} |->
                 IF k = "offset" THEN request.args["limit"]
                 ELSE request.args[k]]]

IsFirstPage ==
    /\ request # None
    /\ previous = None
    /\ \/ /\ request.op = "get_projects_in_viewport"
          /\ request.pagination_params.page = 1
          /\ request.pagination_params.offset = 0
          /\ request.pagination_params.limit >= 1
       \/ /\ request.op = "route"
          /\ request.route \in SearchRoutes
                 \cup {"residential_projects", "commercial_projects"}
          /\ "limit" \in DOMAIN request.args
          /\ ~IsRaised(ParseInt(request.args["limit"]))
          /\ ParseInt(request.args["limit"]).returned >= 1
          /\ Get(request.args, "offset", <<"0">>) = <<"0">>

QueryNextPage ==
    /\ IsFirstPage
    /\ request' = NextPageRequest
    /\ response' =
           IF request.op = "get_projects_in_viewport"
           THEN get_projects_in_viewport(
                    request.projects, request.viewport_params,
                    NextPageRequest.pagination_params)
           ELSE IF request.variant = "package"
           THEN Handle(request.route, NextPageRequest.args)
           ELSE IF request.route = "search_residential_projects"
           THEN search_projects(NextPageRequest.args,
                                IndexDict("RESIDENTIAL_PROJECTS_NAME_INDEX"),
                                RESIDENTIAL_PROJECTS_CACHE)
           ELSE search_projects(NextPageRequest.args,
                                IndexDict("COMMERCIAL_PROJECTS_NAME_INDEX"),
                                COMMERCIAL_PROJECTS_CACHE)
    /\ previous' = [request |-> request, response |-> response]
    /\ UNCHANGED <<globals, callers, last_return, runs, admin, before_refresh,
                   published, serving, dicts>>

\* the request is over: the server takes the next one
QueryDone ==
    /\ request # None
    /\ request' = None
    /\ response' = None
    /\ previous' = None
    /\ UNCHANGED <<globals, callers, last_return, runs, admin, before_refresh,
                   published, serving, dicts>>

QueryNext ==
    \/ \E route \in GuardedRoutes :
           \E args \in QueryArgs(route) : QueryRoute(route, args)
    \/ \E route \in SearchRoutes :
           \E args \in QueryArgs(route) : QueryLegacySearch(route, args)
    \/ \E projects \in CacheCollections, viewport_params \in ViewportTexts :
           QueryFilter(projects, viewport_params)
    \/ \E projects \in CacheCollections, viewport_params \in ViewportTexts,
          pagination_params \in Paginations :
           QueryViewport(projects, viewport_params, pagination_params)
    \/ \E viewport_params \in ViewportTexts,
          pagination_params \in BigPaginations :
           QueryViewport(BigCollection, viewport_params, pagination_params)
    \/ \E criteria \in Criteria :
           \/ QueryAttributeFilter("filter_residential_properties",
                                   RESIDENTIAL_PROPERTIES_CACHE, criteria)
           \/ QueryAttributeFilter("filter_commercial_properties",
                                   COMMERCIAL_PROPERTIES_CACHE, criteria)
    \/ QueryNextPage
    \/ QueryDone

QuerySpec == QueryInit /\ [][QueryNext]_vars

(***************************************************************************)
(* Properties.                                                             *)
(***************************************************************************)
AllEmpty ==
    << <<<<>>, <<>>, <<>>, <<>>, <<>>>>, <<EmptyIndex, EmptyIndex>> >>

\* the background runs that were ever started
StartedRuns == {c \in Callers : runs[c].pc # "idle"}

NoRunInFlight == \A r \in RunIds : ~InFlight(r)

\* C1: whatever the interleaving of the callers' flag checks and flag
\* writes, at most one background population run is ever started.
C1_AtMostOnePopulationRun == Cardinality(StartedRuns) <= 1

\* C2: ensure_cache_initialized() returns true only after a population run
\* has assigned all five collections, rebuilt both name indices and then set
\* CACHE_INITIALIZED; every call before that returns false.
C2_TrueOnlyAfterCompleteRun ==
    (CACHE_INITIALIZED \/ last_return.value = "True")
        => /\ CACHE_INITIALIZED
           /\ published # {}
           /\ \A p \in published : p.wrote = AllStructures

\* a call has returned true after the background run it waited for
C2_Witness ==
    /\ last_return.value = "True"
    /\ \E c \in Callers : runs[c].pc = "done" /\ runs[c].outcome = "ok"

\* C3: after a population run failed, the lifecycle is EMPTY again (neither
\* started nor initialized), so that the next call starts a new run.
C3_FailedRunRevertsToEmpty ==
    (/\ \E c \in Callers : runs[c].pc = "done" /\ runs[c].outcome = "failed"
     /\ NoRunInFlight
     /\ ~CACHE_INITIALIZED)
        => ~CACHE_INITIALIZATION_STARTED

\* C4: whenever the cache reports READY, the five collections and the two
\* indices are together the output of one successful population run.
C4_ReadySeesOneRunOutput ==
    CACHE_INITIALIZED
        => \E p \in published : <<collections, indices>> = p.output

\* C5: when a population run has raised, then after it all five collections
\* and both name indices are empty (stated for a run that ends while no other
\* run is in flight).
C5_FailedRunLeavesEverythingEmpty ==
    [][\A r \in RunIds :
          (/\ InExcept(r)
           /\ runs'[r].pc = "done"
           /\ \A o \in RunIds \ {r} : ~InFlight(o))
              => <<collections, indices>>' = AllEmpty]_vars

\* C6: update_cache() reports success only when its population run succeeded;
\* a failed run is propagated as an error.
C6_SuccessOnlyWhenRefreshSucceeded ==
    (admin.pc = "idle" /\ admin.result = "success")
        => runs[Admin].outcome = "ok"

\* C7: an update_cache() whose run failed leaves collections, indices and
\* flags as they were when it was called (no other thread having written).
C7_FailedRefreshChangesNothing ==
    (/\ admin.pc = "running"
     /\ runs[Admin].pc = "done"
     /\ runs[Admin].outcome = "failed"
     /\ before_refresh.clean)
        => globals = before_refresh.globals

\* C8: whenever the cache reports READY, each name index is the index of its
\* collection as it is now: lowercased names of the non-null named entities,
\* each with exactly the positions that hold that name.
C8_IndicesConsistentWhenReady ==
    CACHE_INITIALIZED
        => /\ COMMERCIAL_PROJECTS_NAME_INDEX =
                  NameIndexOf(COMMERCIAL_PROJECTS_CACHE)
           /\ RESIDENTIAL_PROJECTS_NAME_INDEX =
                  NameIndexOf(RESIDENTIAL_PROJECTS_CACHE)

\* C9: a call of ensure_cache_initialized() entered when the started flag or
\* the initialized flag is set starts no run and writes no collection, index
\* or flag; it returns true if the cache was initialized at its entry and
\* false otherwise.
C9_BusyCallIsNoOp ==
    [][/\ \A c \in Callers :
            \* the entry of a call, with a flag set
            /\ (/\ callers[c].pc = "idle"
                /\ callers'[c] # callers[c]
                /\ (CACHE_INITIALIZATION_STARTED \/ CACHE_INITIALIZED))
                   => UNCHANGED <<globals, runs, last_return>>
            \* the rest of a call entered with the started flag set and the
            \* initialized flag clear
            /\ (/\ callers[c].pc # "idle"
                /\ callers'[c] # callers[c]
                /\ callers[c].entryStarted)
                   => /\ UNCHANGED <<globals, runs>>
                      /\ callers'[c].pc = "idle"
                      /\ last_return'.value = "False"
       \* a call that returns at its entry
       /\ (callers' = callers /\ last_return' # last_return)
             => /\ CACHE_INITIALIZED
                /\ last_return'.value = "True"
                /\ UNCHANGED <<globals, runs>>]_vars

\* a call entered while a run was in flight has returned false, the run
\* still being in flight
C9_Witness ==
    /\ last_return = [value |-> "False", entryStarted |-> TRUE]
    /\ \E c \in Callers : InFlight(c)

\* C10: once ensure_cache_initialized() has started a population run and all
\* five remote fetches returned without error, the run terminates and the
\* cache becomes READY.  CACHE_INITIALIZED is assigned only by the last
\* statement of the run's try block (line 104) and a run that ended is never
\* started again, so a run that fetched all five lists and ended has set it.
\* A project whose name is truthy and no string makes name.lower() raise in
\* the index builder (line 33 or 46), after the fetches: the run ends in the
\* except block without setting the flag.
C10_FetchedRunEndsReady ==
    \A c \in Requesters :
        (runs[c].pc = "done" /\ runs[c].fetched) => CACHE_INITIALIZED

\* C11: while the cache is not READY, every endpoint that serves cached data
\* answers 202 "initializing" and reads no collection and no index.  The
\* search endpoints of src/app.py answer without the guard.
C11_NotReadyAnswersInitializing ==
    (response # None /\ ~response.ready) =>
        (response.http = initializing_of(response.route) /\ response.reads = {})

\* the text of the coordinate field of an entity, "" when it has none
CoordinateText(entity) ==
    IF "coordinates" \in DOMAIN entity /\ Truthy(entity["coordinates"])
    THEN entity["coordinates"]
    ELSE IF "Coordinates" \in DOMAIN entity THEN entity["Coordinates"]
    ELSE EmptyStr

\* the coordinate field is a string "lat,lng" of two numbers, a legal
\* latitude and a legal longitude
HasLegalPoint(entity) ==
    LET text == CoordinateText(entity)
    IN  /\ IsStr(text)
        /\ Len(Split(text.str)) = 2
        /\ ~IsRaised(ParseFloat(Split(text.str)[1]))
        /\ ~IsRaised(ParseFloat(Split(text.str)[2]))
        /\ Leq(Float(-90), ParseFloat(Split(text.str)[1]).returned)
        /\ Leq(ParseFloat(Split(text.str)[1]).returned, Float(90))
        /\ Leq(Float(-180), ParseFloat(Split(text.str)[2]).returned)
        /\ Leq(ParseFloat(Split(text.str)[2]).returned, Float(180))

\* minLat <= lat <= maxLat and minLng <= lng <= maxLng, for the bounds given
\* as text
InBounds(entity, viewport_params) ==
    /\ HasLegalPoint(entity)
    /\ LET lat == ParseFloat(Split(CoordinateText(entity).str)[1]).returned
           lng == ParseFloat(Split(CoordinateText(entity).str)[2]).returned
       IN  /\ Leq(ParseFloat(viewport_params.minLat).returned, lat)
           /\ Leq(lat, ParseFloat(viewport_params.maxLat).returned)
           /\ Leq(ParseFloat(viewport_params.minLng).returned, lng)
           /\ Leq(lng, ParseFloat(viewport_params.maxLng).returned)

\* C12: a null entry in a collection is skipped by the viewport filter:
\* filter_projects_by_viewport completes, returns no null entry and returns
\* every non-null entity that is in bounds.  In the code project.get on a
\* null entry raises AttributeError, which "except ValueError" lets through.
C12_FilterSkipsNullEntries ==
    (request # None /\ request.op = "filter_projects_by_viewport") =>
        /\ ~IsRaised(response)
        /\ \A i \in DOMAIN response.returned : response.returned[i] # None
        /\ \A i \in DOMAIN request.projects :
               (/\ request.projects[i] # None
                /\ InBounds(request.projects[i], request.viewport_params))
               => \E j \in DOMAIN response.returned :
                      response.returned[j] = request.projects[i]

\* the collection a point lookup scans
LookupCollection(route) ==
    IF route = "residential_property_by_id" THEN RESIDENTIAL_PROPERTIES_CACHE
    ELSE COMMERCIAL_PROPERTIES_CACHE

\* the positions of the entities of a collection that carry the identifier
PositionsWithId(collection, id) ==
    {i \in DOMAIN collection :
        /\ collection[i] # None
        /\ "airtable_id" \in DOMAIN collection[i]
        /\ collection[i].airtable_id = id}

\* C13: a point lookup on a READY cache returns the first entity whose
\* airtable_id equals the requested identifier and answers 404 "Property
\* not found" when there is none, also when the collection has null
\* entries.  In the code property["airtable_id"] raises on a null entry and
\* the route answers 500.
C13_LookupFindsFirstOrNotFound ==
    (/\ request # None
     /\ request.op = "route"
     /\ request.route \in {"residential_property_by_id",
                           "commercial_property_by_id"}) =>
        LET collection == LookupCollection(request.route)
            positions ==
                PositionsWithId(collection,
                                IF "propertyId" \in DOMAIN request.args
                                THEN Str(request.args["propertyId"]) ELSE None)
        IN  IF positions = {}
            THEN response = Error(404, "Property not found")
            ELSE response =
                     Response(200, collection[CHOOSE i \in positions :
                                                 \A j \in positions : i <= j])

\* C14: after a successful population, every non-null entity of the four
\* project and property collections carries an airtable_id equal to the id
\* of the raw record it was formatted from.  format_commercial_project
\* returns a mapping without airtable_id.
C14_EntitiesCarryRecordId ==
    \A r \in RunIds :
        (runs[r].pc = "set_initialized") =>
            LET stored == OutputOf(runs[r])[1]
                raw == << runs[r].records, runs[r].commercial_records,
                          runs[r].residential_inventory_records,
                          runs[r].commercial_inventory_records >>
            IN  \A k \in 1..4 :
                    \A i \in DOMAIN stored[k] :
                        stored[k][i] # None =>
                            /\ "airtable_id" \in DOMAIN stored[k][i]
                            /\ stored[k][i].airtable_id = raw[k][i]["id"]

\* the entities of a collection that are in bounds, in their order
EntitiesInBounds(projects, viewport_params) ==
    SelectSeq(projects,
              LAMBDA entity : entity # None /\ InBounds(entity, viewport_params))

\* C15: for every valid viewport and every collection,
\* filter_projects_by_viewport returns exactly the entities whose coordinate
\* parses to a point inside the bounds (inclusive), in their original
\* relative order; an entity whose coordinate is empty, unparseable or not a
\* legal point never appears.  On a collection with a null entry the call
\* raises instead of returning.
C15_FilterReturnsEntitiesInBounds ==
    (request # None /\ request.op = "filter_projects_by_viewport") =>
        response = Returned(EntitiesInBounds(request.projects,
                                             request.viewport_params))

\* the four bounds are numbers
NumericBounds(viewport_params) ==
    /\ ~IsRaised(ParseFloat(viewport_params.minLat))
    /\ ~IsRaised(ParseFloat(viewport_params.maxLat))
    /\ ~IsRaised(ParseFloat(viewport_params.minLng))
    /\ ~IsRaised(ParseFloat(viewport_params.maxLng))

\* minLat > maxLat, minLng > maxLng, a latitude bound outside [-90, 90] or
\* a longitude bound outside [-180, 180]
IllegalBounds(viewport_params) ==
    LET minLat == ParseFloat(viewport_params.minLat).returned
        maxLat == ParseFloat(viewport_params.maxLat).returned
        minLng == ParseFloat(viewport_params.minLng).returned
        maxLng == ParseFloat(viewport_params.maxLng).returned
    IN  \/ ~Leq(minLat, maxLat)
        \/ ~Leq(minLng, maxLng)
        \/ \E lat \in {minLat, maxLat} :
               ~Leq(Float(-90), lat) \/ ~Leq(lat, Float(90))
        \/ \E lng \in {minLng, maxLng} :
               ~Leq(Float(-180), lng) \/ ~Leq(lng, Float(180))

\* the viewport parameters of a request to a projects route
ViewportArgs(args) ==
    [minLat |-> args["minLat"], maxLat |-> args["maxLat"],
     minLng |-> args["minLng"], maxLng |-> args["maxLng"]]

\* a request to a projects route that carries a viewport of four numbers
\* and a limit and an offset that are integers
IsViewportRequest ==
    /\ request # None
    /\ request.op = "route"
    /\ request.route \in {"residential_projects", "commercial_projects"}
    /\ has_viewport(request.args)
    /\ NumericBounds(ViewportArgs(request.args))
    /\ ~IsRaised(IntArg(request.args, "limit", 12))
    /\ ~IsRaised(IntArg(request.args, "offset", 0))

\* C16: constructing a viewport fails with a validation error exactly when
\* minLat > maxLat, minLng > maxLng, a latitude bound is outside [-90, 90]
\* or a longitude bound is outside [-180, 180], among the numeric
\* quadruples; on failure nothing is filtered and the request is answered
\* 400.
C16_ViewportValidation ==
    /\ (/\ request # None
        /\ request.op = "get_projects_in_viewport"
        /\ NumericBounds(request.viewport_params)) =>
           (IllegalBounds(request.viewport_params)
                <=> response = Raised("ValueError"))
    /\ IsViewportRequest =>
           (IllegalBounds(ViewportArgs(request.args))
                <=> response = Error(400, "Invalid viewport parameters"))

\* a request with minLat = 10 and maxLat = 5 has been answered 400
C16_Witness ==
    /\ IsViewportRequest
    /\ request.args["minLat"] = <<"1", "0">>
    /\ request.args["maxLat"] = <<"5">>
    /\ response = Error(400, "Invalid viewport parameters")

\* a number clamped to [low, high]
Clamped(number, low, high) ==
    IF number < low THEN low ELSE IF number > high THEN high ELSE number

\* xs[start : start + limit], for a start inside xs
PageOf(xs, start, limit) ==
    [i \in 1..(IF start + limit < Len(xs) THEN limit ELSE Len(xs) - start) |->
        xs[start + i]]

\* C17: with limit clamped to [1, 500], page to at least 1 and offset to at
\* least 0, get_projects_in_viewport / get_properties_in_viewport return
\* F[start : start + limit] for start = (page - 1) * limit + offset and
\* has_more = (start + limit < len(F)), an empty page with has_more = false
\* when start >= len(F), and total = len(F), F being the filtered result.
C17_ViewportPage ==
    (/\ request # None
     /\ request.op = "get_projects_in_viewport"
     /\ ~IsRaised(response)) =>
        LET F == EntitiesInBounds(request.projects, request.viewport_params)
            limit == Clamped(request.pagination_params.limit, 1, 500)
            page == IF request.pagination_params.page < 1 THEN 1
                    ELSE request.pagination_params.page
            offset == IF request.pagination_params.offset < 0 THEN 0
                      ELSE request.pagination_params.offset
            start == (page - 1) * limit + offset
        IN  /\ response.returned.total = Len(F)
            /\ IF start >= Len(F)
               THEN /\ response.returned.items = <<>>
                    /\ response.returned.has_more = FALSE
               ELSE /\ response.returned.items = PageOf(F, start, limit)
                    /\ response.returned.has_more = (start + limit < Len(F))

\* the second page of one entity, asked with limit 0 and offset 1, has been
\* returned, and more entities follow it
C17_Witness ==
    /\ request # None
    /\ request.op = "get_projects_in_viewport"
    /\ request.pagination_params = [page |-> 2, limit |-> 0, offset |-> 1]
    /\ ~IsRaised(response)
    /\ Len(response.returned.items) = 1
    /\ response.returned.has_more

\* the paginated path of a request, the N it asked for, the items of its
\* answer and the full filtered result the pages are cut from
PathOf(req) ==
    IF req.op = "get_projects_in_viewport" THEN "viewport"
    ELSE IF req.route \in SearchRoutes THEN "prefix search"
    ELSE IF has_viewport(req.args) THEN "viewport"
    ELSE "general listing"

AskedLimit(req) ==
    IF req.op = "get_projects_in_viewport" THEN req.pagination_params.limit
    ELSE ParseInt(req.args["limit"]).returned

Succeeded(req, resp) ==
    IF req.op = "get_projects_in_viewport" THEN ~IsRaised(resp)
    ELSE resp.status = 200

ItemsOf(req, resp) ==
    IF req.op = "get_projects_in_viewport" THEN resp.returned.items
    ELSE resp.body.items

ListedCollection(req) ==
    IF req.route = "residential_projects" THEN RESIDENTIAL_PROJECTS_CACHE
    ELSE COMMERCIAL_PROJECTS_CACHE

\* the collection a search request reads
SearchedCollection(req) ==
    IF req.variant = "package" THEN ImportedCache
    ELSE IF req.route = "search_residential_projects"
    THEN RESIDENTIAL_PROJECTS_CACHE
    ELSE COMMERCIAL_PROJECTS_CACHE

FullResult(req) ==
    IF req.op = "get_projects_in_viewport"
    THEN EntitiesInBounds(req.projects, req.viewport_params)
    ELSE IF req.route \in SearchRoutes
    THEN sort_by_name(
             set_iter(matching_indices(
                 search_term_of(req.args),
                 IF req.variant = "package" THEN ImportedDict
                 ELSE IndexDict(IndexOf(req.route)))),
             SearchedCollection(req))
    ELSE IF has_viewport(req.args)
    THEN EntitiesInBounds(ListedCollection(req), ViewportArgs(req.args))
    ELSE ListedCollection(req)

FirstItems(xs, n) == SubSeq(xs, 1, IF n < Len(xs) THEN n ELSE Len(xs))

\* the request offset=0,limit=N has been followed by the request
\* offset=N,limit=N, and both were answered with a page
TwoPages ==
    /\ previous # None
    /\ Succeeded(previous.request, previous.response)
    /\ Succeeded(request, response)

\* C18 (as stated): for every N >= 1, on each paginated path, the pages of
\* offset=0,limit=N and offset=N,limit=N concatenate to the first 2N items
\* of the full filtered result.
C18_TwoPagesAreFirst2N ==
    TwoPages =>
        ItemsOf(previous.request, previous.response) \o ItemsOf(request, response)
            = FirstItems(FullResult(request), 2 * AskedLimit(request))

\* C18 (amended): the same for every N from 1 to the cap of the path: 500
\* on the viewport path, 100 on the prefix-search path, none on the general
\* listing path.
C18_TwoPagesAreFirst2NWithinCap ==
    (/\ TwoPages
     /\ PathOf(request) = "viewport" => AskedLimit(request) <= 500
     /\ PathOf(request) = "prefix search" => AskedLimit(request) <= 100) =>
        ItemsOf(previous.request, previous.response) \o ItemsOf(request, response)
            = FirstItems(FullResult(request), 2 * AskedLimit(request))

\* two pages of two entities each have been returned on the viewport path
C18_Witness ==
    /\ TwoPages
    /\ PathOf(request) = "viewport"
    /\ AskedLimit(request) = 2
    /\ Len(ItemsOf(previous.request, previous.response)) = 2
    /\ Len(ItemsOf(request, response)) = 2

\* the index a search request reads
SearchedIndex(req) ==
    IF req.variant = "package" THEN ImportedIndex
    ELSE IF req.route = "search_residential_projects"
    THEN RESIDENTIAL_PROJECTS_NAME_INDEX
    ELSE COMMERCIAL_PROJECTS_NAME_INDEX

\* text starts with prefix
HasPrefix(text, prefix) ==
    /\ Len(prefix) <= Len(text)
    /\ \A i \in DOMAIN prefix : text[i] = prefix[i]

\* the positions of the entities whose lowercased name starts with t
PositionsWithPrefix(collection, t) ==
    {i \in DOMAIN collection :
        /\ collection[i] # None
        /\ IsStr(collection[i].name)
        /\ HasPrefix(Lower(collection[i].name.str), t)}

\* a search request with a non-empty term, an integer limit and an integer
\* offset has been answered from an index consistent with its collection
IsSearchAnswer ==
    /\ request # None
    /\ request.op = "route"
    /\ request.route \in SearchRoutes
    /\ search_term_of(request.args) # <<>>
    /\ ~IsRaised(IntArg(request.args, "limit", 12))
    /\ ~IsRaised(IntArg(request.args, "offset", 0))
    /\ SearchedIndex(request) = NameIndexOf(SearchedCollection(request))

\* C19: for a non-empty term t and an index consistent with its collection,
\* prefix search returns every entity whose lowercased name starts with t
\* exactly once and no other entity, ordered alphabetically by lowercased
\* name, wherever the entities are in the collection.
C19_PrefixSearchResult ==
    IsSearchAnswer =>
        LET collection == SearchedCollection(request)
            found == PositionsWithPrefix(collection,
                                         search_term_of(request.args))
            items == response.body.items
        IN  /\ response.status = 200
            /\ response.body.total = Cardinality(found)
            /\ \A j \in DOMAIN items :
                   \E i \in found : items[j] = collection[i]
            /\ \A j, k \in DOMAIN items :
                   j < k => ~StrLess(Lower(items[k].name.str),
                                     Lower(items[j].name.str))
            /\ (response.body.offset = 0
                    /\ response.body.limit >= Cardinality(found)) =>
                   /\ Len(items) = Cardinality(found)
                   /\ \A i \in found :
                          \E j \in DOMAIN items : items[j] = collection[i]

\* a search for "kal" has returned the entity at position 7 and then the
\* entity at position 3
C19_Witness ==
    /\ IsSearchAnswer
    /\ search_term_of(request.args) = <<"k", "a", "l">>
    /\ Len(RESIDENTIAL_PROJECTS_CACHE) = 9
    /\ response.body.items = << RESIDENTIAL_PROJECTS_CACHE[8],
                                RESIDENTIAL_PROJECTS_CACHE[4] >>

\* A search for "b" has returned the two entities named "b" once
\* lowercased in the iteration order of the set {4, 8}: the entity at
\* position 8, then the entity at position 4 (reachable under QuerySpec).
SearchTieInSetOrder ==
    /\ IsSearchAnswer
    /\ search_term_of(request.args) = <<"b">>
    /\ Len(RESIDENTIAL_PROJECTS_CACHE) = 9
    /\ response.body.items = << RESIDENTIAL_PROJECTS_CACHE[9],
                                RESIDENTIAL_PROJECTS_CACHE[5] >>

\* a search request whose term is missing or empty after lowercasing and
\* trimming has been answered
EmptyTermAnswered ==
    /\ response # None
    /\ response.route \in SearchRoutes
    /\ Strip(Lower(Get(response.args, "q", <<>>))) = <<>>

\* C20 (as stated): a search request whose term is missing or empty after
\* lowercasing and trimming is answered 400 "Search term is required",
\* whatever the cache state and the other parameters, and scans no index.
C20_EmptyTermIs400 ==
    EmptyTermAnswered =>
        /\ response.http = Error(400, "Search term is required")
        /\ response.reads = {}

\* C20 (amended): such a request scans no index and is answered 202 when
\* its ensure_cache_initialized() call returned false, else 400 "Invalid
\* parameters for limit or offset" when limit or offset is no integer, else
\* 400 "Search term is required".
C20_EmptyTermAfterGuardAndIntegers ==
    EmptyTermAnswered =>
        /\ response.reads = {}
        /\ \/ response.http = Initializing
           \/ response.http =
                  IF \/ IsRaised(IntArg(response.args, "limit", 12))
                     \/ IsRaised(IntArg(response.args, "offset", 0))
                  THEN Error(400, "Invalid parameters for limit or offset")
                  ELSE Error(400, "Search term is required")

\* on the READY cache a search with a blank term has been answered 400
\* "Search term is required"
C20_Witness ==
    /\ EmptyTermAnswered
    /\ response.ready
    /\ response.args = Args1("q", <<" ">>)
    /\ response.http = Error(400, "Search term is required")

\* a call of an attribute filter has returned
IsAttributeFilterCall ==
    /\ request # None
    /\ request.op \in {"filter_residential_properties",
                       "filter_commercial_properties"}

\* the criteria of the call other than those named: none of them supplied
OnlySupplied(names) ==
    \A name \in DOMAIN request.criteria \ names :
        request.criteria[name] = None

\* the price of an entity as a number: the number itself, or the number its
\* text spells once "," and the currency glyph are removed; None when the
\* price is missing, is no number or spells none
NumericPrice(entity) ==
    LET price == Get(entity, "price", None)
        spelt == ParseFloat(
                     Strip(SelectSeq(price.str,
                                     LAMBDA ch : ch \notin {",", "₹"})))
    IN  IF IsNum(price) THEN Float(price.num)
        ELSE IF IsStr(price) /\ ~IsRaised(spelt) THEN spelt.returned
        ELSE None

\* price_min <= price <= price_max, for the bounds that are set
PriceWithin(entity, price_min, price_max) ==
    \/ price_min = None /\ price_max = None
    \/ /\ NumericPrice(entity) # None
       /\ price_min # None => Leq(price_min, NumericPrice(entity))
       /\ price_max # None => Leq(NumericPrice(entity), price_max)

\* C21: an attribute filter called with price bounds only keeps a property
\* if and only if its price (a number, or text parsed after removing the
\* thousands separators and the currency glyph) satisfies
\* priceMin <= price <= priceMax, bounds inclusive; a property whose price
\* is missing or unparseable is excluded as soon as either bound is set and
\* kept when none is.
C21_PriceBoundsKeepPricesInRange ==
    (IsAttributeFilterCall /\ OnlySupplied({"price_min", "price_max"})) =>
        response =
            Returned(SelectSeq(request.properties,
                LAMBDA entity :
                    /\ entity # None
                    /\ PriceWithin(entity, request.criteria.price_min,
                                   request.criteria.price_max)))

\* the values of a locality, of the caller or of a property: a scalar
\* counts as a list of one
LocalityValues(locality) ==
    IF IsStr(locality) THEN <<locality.str>>
    ELSE [i \in DOMAIN locality.list |-> locality.list[i].str]

\* the locality of the entity is a text or a list of texts
HasTextLocality(entity) ==
    LET locality == Get(entity, "locality", EmptyStr)
    IN  \/ IsStr(locality)
        \/ /\ IsList(locality)
           /\ \A i \in DOMAIN locality.list : IsStr(locality.list[i])

\* a value of the caller equals, ignoring case, a value of the property
MeetsIgnoringCase(wanted, entity) ==
    \E i \in DOMAIN wanted :
        \E j \in DOMAIN LocalityValues(Get(entity, "locality", EmptyStr)) :
            Lower(wanted[i]) =
                Lower(LocalityValues(Get(entity, "locality", EmptyStr))[j])

\* the entities of the collection with a locality among the wanted ones
LocalityMatches(properties, wanted) ==
    SelectSeq(properties,
              LAMBDA entity : /\ entity # None
                              /\ HasTextLocality(entity)
                              /\ MeetsIgnoringCase(wanted, entity))

\* the caller's values without the blanks around them
Trimmed(wanted) == [i \in DOMAIN wanted |-> Strip(wanted[i])]

\* a call of an attribute filter with a locality and nothing else
IsLocalityCall ==
    /\ IsAttributeFilterCall
    /\ OnlySupplied({"locality"})
    /\ request.criteria.locality # None

\* a listing of properties asked with the parameter locality and nothing
\* else, on the READY cache
IsLocalityListing ==
    /\ request # None
    /\ request.op = "route"
    /\ request.route \in PropertyListings
    /\ DOMAIN request.args = {"locality"}

\* the caller's localities of such a listing: the single value, or the
\* comma-split list
ListedLocalities ==
    IF \E i \in DOMAIN request.args["locality"] :
           request.args["locality"][i] = ","
    THEN Split(request.args["locality"])
    ELSE <<request.args["locality"]>>

ListedProperties ==
    IF request.route = "residential_properties"
    THEN RESIDENTIAL_PROPERTIES_CACHE ELSE COMMERCIAL_PROPERTIES_CACHE

\* C22 (as stated): under the locality criterion a property passes iff at
\* least one of the caller's localities (a single value, or the comma-split
\* list) equals, ignoring case, one of the property's locality values, a
\* scalar locality counting as a one-element list.
C22_LocalityEqualsIgnoringCase ==
    /\ IsLocalityCall =>
           response = Returned(LocalityMatches(
                          request.properties,
                          LocalityValues(request.criteria.locality)))
    /\ IsLocalityListing =>
           /\ response.status = 200
           /\ response.body.total =
                  Len(LocalityMatches(ListedProperties, ListedLocalities))

\* C22 (amended): the same with the caller's values taken without their
\* surrounding blanks (the property's values are compared as they are); a
\* property whose locality is neither a text nor a list of texts is
\* excluded.
C22_LocalityEqualsTrimmedIgnoringCase ==
    /\ IsLocalityCall =>
           response = Returned(LocalityMatches(
                          request.properties,
                          Trimmed(LocalityValues(request.criteria.locality))))
    /\ IsLocalityListing =>
           /\ response.status = 200
           /\ response.body.total =
                  Len(LocalityMatches(ListedProperties, Trimmed(ListedLocalities)))
           /\ response.body.items =
                  FirstItems(LocalityMatches(ListedProperties,
                                             Trimmed(ListedLocalities)), 12)

\* the property with locality ["Sanand", "Bopal"] is returned by a listing
\* asked with locality=bopal and by a filter called with the list
\* ["sanand", "bopal"]
C22_Witness ==
    /\ request # None
    /\ \/ /\ IsLocalityListing
          /\ request.args["locality"] = <<"b", "o", "p", "a", "l">>
          /\ \E i \in DOMAIN response.body.items :
                 response.body.items[i].locality = List(<<Sanand, Bopal>>)
       \/ /\ IsLocalityCall
          /\ request.criteria.locality =
                 List(<<Str(<<"s", "a", "n", "a", "n", "d">>),
                        Str(<<"b", "o", "p", "a", "l">>)>>)
          /\ \E i \in DOMAIN response.returned :
                 response.returned[i].locality = List(<<Sanand, Bopal>>)

\* the names of the criteria the called filter reads and the call supplies
SuppliedCriteria ==
    {name \in DOMAIN request.criteria :
        /\ request.criteria[name] # None
        /\ name = "bhk" => request.op = "filter_residential_properties"}

\* whether the entity passes the criterion of that name, as the check of
\* the loop body for it decides
PassesCriterion(entity, name) ==
    CASE name \in {"price_min", "price_max"} ->
             price_check(price_of(entity),
                         IF name = "price_min"
                         THEN request.criteria.price_min ELSE None,
                         IF name = "price_max"
                         THEN request.criteria.price_max ELSE None) = "pass"
      [] name = "bhk" ->
             bhk_check(entity, bhk_values_of(request.criteria.bhk)) = "pass"
      [] name = "transaction_type" ->
             transaction_check(entity, request.criteria.transaction_type)
                 = "pass"
      [] name = "propertyType" ->
             property_type_check(
                 entity, stripped_lower_of(request.criteria.propertyType))
                 = "pass"
      [] name = "locality" ->
             locality_check(entity,
                            stripped_lower_of(request.criteria.locality))
                 = "pass"

\* C23: filter_residential_properties and filter_commercial_properties
\* return exactly the sub-sequence, in the original order, of the entities
\* that pass every supplied criterion; a criterion that is not supplied
\* excludes nothing, so with no criterion every entity that is not null is
\* returned.
C23_ReturnsThoseThatPassEverySuppliedCriterion ==
    IsAttributeFilterCall =>
        response =
            Returned(SelectSeq(request.properties,
                LAMBDA entity :
                    /\ entity # None
                    /\ \A name \in SuppliedCriteria :
                           PassesCriterion(entity, name)))

\* a call with two criteria or more has returned some of the entities that
\* pass its first criterion and has left out others that pass it too
C23_Witness ==
    /\ IsAttributeFilterCall
    /\ Cardinality(SuppliedCriteria) >= 2
    /\ Len(response.returned) >= 2
    /\ \E name \in SuppliedCriteria :
           \E i \in DOMAIN request.properties :
               /\ request.properties[i] # None
               /\ PassesCriterion(request.properties[i], name)
               /\ \A j \in DOMAIN response.returned :
                      response.returned[j] # request.properties[i]

\* An entity that the called filter cannot evaluate: a null entry, or an
\* entity with a field of an unexpected type that a supplied criterion
\* reads (a price that is a list; a bhk or a property type that is no
\* text; a locality that is neither a text nor a list of texts).
Unevaluable(entity) ==
    \/ entity = None
    \/ /\ {"price_min", "price_max"} \cap SuppliedCriteria # {}
       /\ IsList(Get(entity, "price", None))
    \/ /\ "bhk" \in SuppliedCriteria
       /\ ~IsStr(Get(entity, "bhk", EmptyStr))
    \/ /\ "propertyType" \in SuppliedCriteria
       /\ ~IsStr(Get(entity, "propertyType", EmptyStr))
    \/ /\ "locality" \in SuppliedCriteria
       /\ ~HasTextLocality(entity)

\* the entities of the input that can be evaluated
Evaluable(properties) ==
    SelectSeq(properties, LAMBDA entity : ~Unevaluable(entity))

\* C24: an entity whose evaluation raises inside an attribute filter (a
\* null entry, or a field of an unexpected type) is excluded from the
\* result and the pass continues: the filter returns normally, and what it
\* returns is what it returns for the input without such entities, so
\* every other entity, before and after, is still evaluated.
C24_RaisingEntityIsSkipped ==
    IsAttributeFilterCall =>
        /\ ~IsRaised(response)
        /\ \A i \in DOMAIN response.returned :
               ~Unevaluable(response.returned[i])
        /\ response.returned =
               SelectSeq(Evaluable(request.properties),
                   LAMBDA entity :
                       \A name \in SuppliedCriteria :
                           PassesCriterion(entity, name))

\* a call has returned an entity that comes, in its input, after an entity
\* that raised
C24_Witness ==
    /\ IsAttributeFilterCall
    /\ \E i \in DOMAIN request.properties :
           /\ Unevaluable(request.properties[i])
           /\ request.properties[i] # None =>
                  \A name \in SuppliedCriteria \ {"bhk"} :
                      PassesCriterion(request.properties[i], name)
           /\ \E j \in DOMAIN request.properties :
                  /\ j > i
                  /\ \E k \in DOMAIN response.returned :
                         response.returned[k] = request.properties[j]

\* a call of filter_residential_properties with bhk tokens and nothing else
IsBhkCall ==
    /\ IsAttributeFilterCall
    /\ request.op = "filter_residential_properties"
    /\ OnlySupplied({"bhk"})
    /\ request.criteria.bhk # None

\* a listing of the residential properties asked with the parameter bhk and
\* nothing else, on the READY cache
IsBhkListing ==
    /\ request # None
    /\ request.op = "route"
    /\ request.route = "residential_properties"
    /\ DOMAIN request.args = {"bhk"}

\* text holds token at some position
HoldsToken(text, token) ==
    \E start \in 1..(Len(text) - Len(token) + 1) :
        \A k \in 1..Len(token) : text[start + k - 1] = token[k]

\* the entities whose bhk is a text that, lowercased, holds one of the
\* tokens, lowercased
BhkMatches(properties, tokens) ==
    SelectSeq(properties,
        LAMBDA entity :
            /\ entity # None
            /\ IsStr(Get(entity, "bhk", EmptyStr))
            /\ \E i \in DOMAIN tokens :
                   HoldsToken(Lower(Get(entity, "bhk", EmptyStr).str),
                              Lower(tokens[i])))

\* the tokens of the listing: the single value or the comma-split list
ListedTokens ==
    IF \E i \in DOMAIN request.args["bhk"] : request.args["bhk"][i] = ","
    THEN Split(request.args["bhk"])
    ELSE <<request.args["bhk"]>>

\* C29: with a bhk criterion supplied, filter_residential_properties keeps
\* a property iff its lowercased bhk text contains at least one of the
\* caller's requested bhk tokens (lowercased) as a substring, so a request
\* for "3" matches "3 BHK"; a property whose bhk text contains none of the
\* requested tokens is excluded.
C29_BhkTokenIsSubstring ==
    /\ IsBhkCall =>
           response = Returned(BhkMatches(
                          request.properties,
                          LocalityValues(request.criteria.bhk)))
    /\ IsBhkListing =>
           /\ response.status = 200
           /\ response.body.total =
                  Len(BhkMatches(RESIDENTIAL_PROPERTIES_CACHE, ListedTokens))
           /\ response.body.items =
                  FirstItems(BhkMatches(RESIDENTIAL_PROPERTIES_CACHE,
                                        ListedTokens), 12)

\* a request for "3" has returned a property with bhk "3 BHK" and one with
\* "13 BHK", and has left out one with "2 BHK"
C29_Witness ==
    /\ IsBhkCall
    /\ request.criteria.bhk = Str(<<"3">>)
    /\ \E i \in DOMAIN response.returned : response.returned[i].bhk = Bhk3
    /\ \E i \in DOMAIN response.returned : response.returned[i].bhk = Bhk13
    /\ \E i \in DOMAIN request.properties :
           /\ request.properties[i] # None
           /\ request.properties[i].bhk = Bhk2
    /\ \A i \in DOMAIN response.returned : response.returned[i].bhk # Bhk2

\* the statements of init_cache() that format a fetched list into a
\* collection
StoreStatements ==
    {"store_residential_projects", "store_commercial_projects",
     "store_residential_properties", "store_commercial_properties",
     "store_localities"}

\* the raw records the run formats at its statement pc
RecordsAt(run) ==
    CASE run.pc = "store_residential_projects" -> run.records
      [] run.pc = "store_commercial_projects" -> run.commercial_records
      [] run.pc = "store_residential_properties" ->
             run.residential_inventory_records
      [] run.pc = "store_commercial_properties" ->
             run.commercial_inventory_records
      [] run.pc = "store_localities" -> run.localities_records

\* the formatting of a raw record raises at its first statement,
\* record["fields"], or, for a residential property, in the scan of the
\* projects for its photos
FormattingRaises(pc, record, projects) ==
    \/ "fields" \notin DOMAIN record
    \/ /\ pc = "store_residential_properties"
       /\ ~Truthy(Get(record["fields"], "Photos", EmptyStr))
       /\ Truthy(Get(record["fields"],
                     "RERA Number (from residential projects)", EmptyStr))
       /\ projects # <<>>
       /\ get_linked_project_photos(
              Get(record["fields"],
                  "RERA Number (from residential projects)", EmptyStr),
              projects).raised

\* the entity a record is formatted to when nothing raises
FormattedAt(pc, record, projects) ==
    CASE pc = "store_residential_projects" -> format_residential_project(record)
      [] pc = "store_commercial_projects" -> format_commercial_project(record)
      [] pc = "store_residential_properties" ->
             format_residential_property(record, projects)
      [] pc = "store_commercial_properties" ->
             format_commercial_property(record, projects)
      [] pc = "store_localities" -> format_locality(record)

\* the entry a store statement makes for a raw record: None where the
\* formatting raised, the formatted entity otherwise
EntryFor(pc, record, projects, entry) ==
    IF FormattingRaises(pc, record, projects)
    THEN entry = None
    ELSE /\ entry # None
         /\ entry = FormattedAt(pc, record, projects)

\* the statements whose comprehension loads a global for every record
PropertyStatements ==
    {"store_residential_properties", "store_commercial_properties"}

\* the list of projects the comprehension of a store statement passes to
\* the formatter: the one bound to the global when the record is formatted
ProjectsAt(pc) ==
    IF pc = "store_residential_properties"
    THEN RESIDENTIAL_PROJECTS_CACHE
    ELSE COMMERCIAL_PROJECTS_CACHE

\* a step of a comprehension over the records of the properties: one
\* entry is added, for the next record in fetch order, and the run stays at
\* its statement
FormatsNextRecord(run, after, projects) ==
    /\ after.pc = run.pc
    /\ Len(after.formatted) = Len(run.formatted) + 1
    /\ SubSeq(after.formatted, 1, Len(run.formatted)) = run.formatted
    /\ EntryFor(run.pc, RecordsAt(run)[Len(run.formatted) + 1], projects,
                after.formatted[Len(after.formatted)])

\* the step of a run that assigns the collection of a store statement: it
\* holds an entry for every record, in fetch order, with None where the
\* formatting raised, and the run goes on to its next statement
StoredEntryPerRecord(run, stored, next_pc) ==
    /\ next_pc = run.program[PositionIn(run.program, run.pc) + 1]
    /\ Len(stored) = Len(RecordsAt(run))
    /\ IF run.pc \in PropertyStatements
       THEN stored = run.formatted
       ELSE \A i \in DOMAIN stored :
                EntryFor(run.pc, RecordsAt(run)[i], <<>>, stored[i])

\* C25: during population, a raw record whose formatting raises yields a
\* null at that record's position and does not abort the batch: the
\* collection a store statement assigns has exactly one entry per fetched
\* raw record, in fetch order, and the run goes on with its next statement
\* towards READY instead of entering the except block.
C25_FormattingFailureYieldsNull ==
    [][\A r \in RunIds :
          (runs[r].pc \in StoreStatements /\ runs'[r] # runs[r]) =>
              IF /\ runs[r].pc \in PropertyStatements
                 /\ Len(runs[r].formatted) < Len(RecordsAt(runs[r]))
              THEN FormatsNextRecord(runs[r], runs'[r], ProjectsAt(runs[r].pc))
              ELSE StoredEntryPerRecord(
                       runs[r],
                       CASE runs[r].pc = "store_residential_projects" ->
                                RESIDENTIAL_PROJECTS_CACHE'
                         [] runs[r].pc = "store_commercial_projects" ->
                                COMMERCIAL_PROJECTS_CACHE'
                         [] runs[r].pc = "store_residential_properties" ->
                                RESIDENTIAL_PROPERTIES_CACHE'
                         [] runs[r].pc = "store_commercial_properties" ->
                                COMMERCIAL_PROPERTIES_CACHE'
                         [] runs[r].pc = "store_localities" -> LOCALITIES_CACHE',
                       runs'[r].pc)]_vars

\* the cache is READY after a run that ended without raising, with a null
\* at the position of the record that could not be formatted and an entity
\* at those of the two records after it
C25_Witness ==
    /\ CACHE_INITIALIZED
    /\ \E r \in RunIds : runs[r].pc = "done" /\ runs[r].outcome = "ok"
    /\ Len(COMMERCIAL_PROJECTS_CACHE) = 3
    /\ COMMERCIAL_PROJECTS_CACHE[1] = None
    /\ COMMERCIAL_PROJECTS_CACHE[2] # None
    /\ COMMERCIAL_PROJECTS_CACHE[3] # None

\* the collection a population run built for the search route: what
\* get_residential_projects_cache() / get_commercial_projects_cache() return
PopulatedCollection(route) ==
    IF route = "search_residential_projects"
    THEN RESIDENTIAL_PROJECTS_CACHE ELSE COMMERCIAL_PROJECTS_CACHE

\* a search route of app/routes has answered, on the READY cache, a request
\* with a non-empty term, an integer limit above the number of entities and
\* no offset
IsPackageSearch ==
    /\ request # None
    /\ request.op = "route"
    /\ request.variant = "package"
    /\ request.route \in SearchRoutes
    /\ CACHE_INITIALIZED
    /\ search_term_of(request.args) # <<>>
    /\ "limit" \notin DOMAIN request.args
    /\ "offset" \notin DOMAIN request.args

\* C26: after a population run has completed and the cache is READY, the
\* search endpoints evaluate the prefix match against the name index and
\* the collection that this population built, so a project stored in the
\* populated collection under name n is found by a search for any
\* non-empty prefix of lowercase n.
C26_SearchFindsPopulatedProjects ==
    IsPackageSearch =>
        /\ response.status = 200
        /\ \A i \in PositionsWithPrefix(PopulatedCollection(request.route),
                                        search_term_of(request.args)) :
               \E j \in DOMAIN response.body.items :
                   response.body.items[j] =
                       PopulatedCollection(request.route)[i]

\* the part of the cache the claim is about: the five collections, the two
\* name indices and the flag CACHE_INITIALIZED
CacheState == <<collections, indices, CACHE_INITIALIZED>>

\* C27: no query operation (the handlers of the listings, with their
\* attribute and viewport filters, of the prefix searches, of the point
\* lookups, of the localities and of the status) changes any of the five
\* collections, either name index or the CACHE_INITIALIZED flag: a step
\* that changes one of them is a step of a thread inside init_cache.
C27_OnlyPopulationWritesCache ==
    [][/\ (serving' # serving \/ response' # response) =>
              CacheState' = CacheState
       /\ CacheState' # CacheState =>
              \E r \in RunIds : InFlight(r) /\ runs'[r] # runs[r]]_vars

\* a listing of the residential properties has been answered from the
\* READY cache, and the collection it read still holds its entities
C27_Witness ==
    /\ response # None
    /\ response.ready
    /\ response.route = "residential_properties"
    /\ response.http.status = 200
    /\ response.reads = {"RESIDENTIAL_PROPERTIES_CACHE"}
    /\ CACHE_INITIALIZED
    /\ Len(RESIDENTIAL_PROPERTIES_CACHE) = 2

\* C30: READY is absorbing: once CACHE_INITIALIZED has been set, no step of
\* ensure_cache_initialized(), of update_cache() or of a population run,
\* completing or failing, clears it; a call of ensure_cache_initialized()
\* made from then on returns at its first check, returns true, and starts
\* no population run.
C30_ReadyIsAbsorbing ==
    [][CACHE_INITIALIZED =>
          /\ CACHE_INITIALIZED'
          \* a thread that is not inside a call does not get past the first
          \* check of the call it makes
          /\ \A c \in Callers :
                 callers[c].pc = "idle" =>
                     /\ callers'[c].pc = "idle"
                     /\ runs'[c] = runs[c] \/ InFlight(c)
          \* a call that returns at its entry returns true
          /\ (callers' = callers /\ last_return' # last_return) =>
                 /\ last_return'.value = "True"
                 /\ runs' = runs]_vars

\* the cache stayed READY through a population run that failed after it
\* (the failed run has emptied the collections), and a call of
\* ensure_cache_initialized() has returned true
C30_Witness ==
    /\ CACHE_INITIALIZED
    /\ \E r \in RunIds : runs[r].pc = "done" /\ runs[r].outcome = "failed"
    /\ \E r \in RunIds : runs[r].pc = "done" /\ runs[r].outcome = "ok"
    /\ collections = << <<>>, <<>>, <<>>, <<>>, <<>> >>
    /\ last_return.value = "True"

\* the RERA number a linked-project reference names: the element of the
\* one-element list the source delivers for a linked column
ReferenceOf(reference) ==
    IF IsList(reference) THEN reference.list[1] ELSE reference

\* the positions of the projects whose rera equals the reference
ProjectsWithRera(projects, reference) ==
    {i \in DOMAIN projects :
        projects[i] # None /\ projects[i].rera = ReferenceOf(reference)}

\* the first photo of the first project, in collection order, whose rera
\* equals the reference; own, the property's empty photo, when no project
\* matches
BackfilledPhoto(projects, reference, own) ==
    LET matches == ProjectsWithRera(projects, reference)
        first == CHOOSE i \in matches : \A j \in matches : i <= j
    IN  IF matches = {} THEN own
        ELSE Str(Split(projects[first].photos.str)[1])

\* the raw record of a property with no photo of its own and a
\* linked-project RERA reference
NeedsBackfill(record) ==
    /\ "fields" \in DOMAIN record
    /\ ~Truthy(Get(record["fields"], "Photos", EmptyStr))
    /\ Truthy(Get(record["fields"],
                  "RERA Number (from residential projects)", EmptyStr))

\* C28: during population, a residential property that has no photo of its
\* own and carries a linked-project RERA reference receives as its photos
\* the first photo of the first residential project, in collection order,
\* whose rera equals the reference; the lookup reads the
\* residential-projects collection formatted earlier in the same
\* population run, and a property without a matching project keeps its
\* empty photo.
C28_PhotoBackfillFromOwnRun ==
    [][\A r \in RunIds :
          (/\ runs[r].pc = "store_residential_properties"
           /\ runs'[r].pc = runs[r].pc
           /\ runs'[r] # runs[r]) =>
              LET record == runs[r].residential_inventory_records
                                [Len(runs'[r].formatted)]
                  entry == runs'[r].formatted[Len(runs'[r].formatted)]
              IN  NeedsBackfill(record) =>
                      /\ entry # None
                      /\ entry.photos =
                             BackfilledPhoto(
                                 Map(format_residential_project,
                                     runs[r].records),
                                 record["fields"]
                                     ["RERA Number (from residential projects)"],
                                 Get(record["fields"], "Photos", EmptyStr))]_vars

====
